---------------------------- MODULE Spec2Model ----------------------------
(***************************************************************************)
(* Availability and booking conversation engine of wa-dental-bot           *)
(* (src/index.js): time-zone arithmetic, slot generation, the per-user     *)
(* dialog driven by POST /webhook, the session store and the calendar.     *)
(*                                                                         *)
(* Time. An instant is an integer number of minutes since 00:00 UTC of     *)
(* calendar day 0, which is a Monday.  A calendar date (year, month, day)  *)
(* is its day number, so Date.UTC(y, m, d, h, mi) is d*1440 + h*60 + mi.   *)
(* ISO strings and Date objects denote instants one to one                 *)
(* (toISOString / new Date), so both are the instant itself.               *)
(***************************************************************************)
EXTENDS Integers, Sequences, FiniteSets, TLC

VARIABLES
    cfg,      \* process configuration read from the environment at start-up
    qry,      \* arguments of the availability query under study
    qstage,   \* 0: not asked, 1: asked once, 2: asked twice
    res1,     \* result of the first getAvailableSlotsTool call
    res2,     \* result of the second call with the same arguments
    redis,    \* TRUE when REDIS_URL is configured (sessions live in Redis)
    now,      \* the current instant (new Date())
    store,    \* the session store: user id -> stored session
    calendar, \* the events of the Google calendar, in order of creation
    retry,    \* messages the transport still holds and may deliver again
    inv,      \* webhook invocations in flight (concurrent specification)
    last,     \* what the most recent webhook invocation did
    reminded  \* history: the reminders delivered for each event since it was (re)scheduled

slotVars == <<qry, qstage, res1, res2>>
dialogVars == <<redis, now, store, calendar, retry, inv, last, reminded>>
vars ==
    <<cfg, qry, qstage, res1, res2, redis, now, store, calendar, retry, inv, last, reminded>>

-----------------------------------------------------------------------------
(* Bounds of the model *)

MaxQueryDays == 2
MaxBusy == 2
MaxEvents == 1
MaxRetry == 1
MaxLlmTurns == 1

-----------------------------------------------------------------------------
(* Configuration: src/index.js:22-26 and the defaults it falls back to *)

Closed == [closed |-> TRUE]

WeekdayKeys == {"mon", "tue", "wed", "thu", "fri", "sat", "sun"}

defaultWorkHours ==
    [k \in WeekdayKeys |->
        IF k = "sun" THEN Closed
        ELSE IF k = "sat"
             THEN [closed |-> FALSE, start |-> <<8, 0>>, end |-> <<13, 0>>]
             ELSE [closed |-> FALSE, start |-> <<8, 0>>, end |-> <<17, 0>>]]

\* WORK_HOURS_JSON of the documented example: 09:00-12:00 on every day
exampleWorkHours ==
    [k \in WeekdayKeys |-> [closed |-> FALSE, start |-> <<9, 0>>, end |-> <<12, 0>>]]

\* a WORK_HOURS_JSON whose opening time is not a multiple of the step, with a
\* short Sunday morning
oddWorkHours ==
    [k \in WeekdayKeys |->
        IF k = "sun" THEN [closed |-> FALSE, start |-> <<8, 10>>, end |-> <<10, 0>>]
        ELSE [closed |-> FALSE, start |-> <<8, 10>>, end |-> <<12, 40>>]]

defaultServiceDuration ==
    [estetica_dental |-> 60, ortodoncia |-> 30, implantes |-> 60, urgencias |-> 30,
     limpieza_prevencion |-> 45, odontopediatria |-> 45, otro |-> 30]

\* A clinic time zone: UTC offset off0 before instant T and off1 from T on.
\* America/Santo_Domingo has no transition; America/Tijuana moves its clocks
\* on a Sunday (day 6 of the model) at 02:00 local time.
TzSantoDomingo == [name |-> "America/Santo_Domingo", off0 |-> -240, off1 |-> -240, T |-> 0]
TzTijuanaSpring == [name |-> "America/Tijuana", off0 |-> -480, off1 |-> -420,
                    T |-> 6 * 1440 + 600]
TzTijuanaAutumn == [name |-> "America/Tijuana", off0 |-> -420, off1 |-> -480,
                    T |-> 6 * 1440 + 540]

TimeZones == {TzSantoDomingo, TzTijuanaSpring, TzTijuanaAutumn}

Configs ==
    {[CLINIC_TIMEZONE |-> tz, WORK_HOURS |-> hs[1], SERVICE_DURATION |-> defaultServiceDuration,
      SLOT_STEP_MIN |-> hs[2]] :
        tz \in TimeZones,
        hs \in {<<defaultWorkHours, 15>>, <<exampleWorkHours, 30>>, <<oddWorkHours, 15>>}}

-----------------------------------------------------------------------------
(* Time zone utilities *)

\* UTC offset in force at instant t (what Intl.DateTimeFormat applies)
TzOffsetAt(t) ==
    IF t < cfg.CLINIC_TIMEZONE.T THEN cfg.CLINIC_TIMEZONE.off0 ELSE cfg.CLINIC_TIMEZONE.off1

DateUTC(day, hour, minute) == day * 1440 + hour * 60 + minute

getZonedParts(t) ==
    LET loc == t + TzOffsetAt(t)
    IN  [day |-> loc \div 1440, hour |-> (loc % 1440) \div 60, minute |-> loc % 60]

getOffsetMinutes(t) ==
    LET p == getZonedParts(t)
    IN  DateUTC(p.day, p.hour, p.minute) - t

zonedTimeToUtc(day, hour, minute) ==
    LET guess == DateUTC(day, hour, minute)
        offsetMin == getOffsetMinutes(guess)
    IN  DateUTC(day, hour, minute) - offsetMin

weekdayKeyFromISOWeekday(isoWeekday) ==
    <<"mon", "tue", "wed", "thu", "fri", "sat", "sun">>[isoWeekday]

\* Date.prototype.getUTCDay of noon of the given day (0 = Sunday; day 0 is a Monday)
getUTCDay(day) == (day + 1) % 7

-----------------------------------------------------------------------------
(* Availability engine *)

SlotCap == 8

\* mutant: a range that only touches counts as overlapping
overlapsInclusive(aStart, aEnd, bStart, bEnd) == aStart <= bEnd /\ aEnd >= bStart

overlaps(aStart, aEnd, bStart, bEnd) == aStart < bEnd /\ aEnd > bStart

\* mutant: the identifier also depends on how often the query ran
SlotIdPerCall(startUTC) == <<"slot_", startUTC, qstage>>

SlotId(startUTC) == <<"slot_", startUTC>>

CeilDiv(a, b) == (a + b - 1) \div b

\* mutant: the end of the slot is not compared with the end of the window
InWindowStartOnly(slotStartUTC, slotEndUTC, from, to) == slotStartUTC >= from

\* the test that admits a candidate into the result
InWindow(slotStartUTC, slotEndUTC, from, to) == slotStartUTC >= from /\ slotEndUTC <= to

\* the inner while loop of buildCandidateSlotsZoned for one local date
RECURSIVE DayCursorLoop(_, _, _, _, _, _, _)
DayCursorLoop(cursorMin, endMin, day, service, from, to, durationMin) ==
    IF cursorMin + durationMin <= endMin
    THEN LET h == cursorMin \div 60
             m == cursorMin % 60
             slotStartUTC == zonedTimeToUtc(day, h, m)
             slotEndUTC == slotStartUTC + durationMin
             here == IF InWindow(slotStartUTC, slotEndUTC, from, to)
                     THEN <<[slot_id |-> SlotId(slotStartUTC),
                             service |-> IF service = "" THEN "limpieza_prevencion"
                                         ELSE service,
                             start |-> slotStartUTC,
                             end |-> slotEndUTC]>>
                     ELSE <<>>
         IN  here \o DayCursorLoop(cursorMin + cfg.SLOT_STEP_MIN, endMin, day, service,
                                   from, to, durationMin)
    ELSE <<>>

DaySlots(day, service, from, to, durationMin) ==
    LET isoWeekday == ((getUTCDay(day) + 6) % 7) + 1
        key == weekdayKeyFromISOWeekday(isoWeekday)
        wh == cfg.WORK_HOURS[key]
    IN  IF wh.closed THEN <<>>
        ELSE LET cursor0 == wh.start[1] * 60 + wh.start[2]
                 endMin == wh.end[1] * 60 + wh.end[2]
                 cursorMin == CeilDiv(cursor0, cfg.SLOT_STEP_MIN) * cfg.SLOT_STEP_MIN
             IN  DayCursorLoop(cursorMin, endMin, day, service, from, to, durationMin)

\* the outer while loop; it never ends when the cursor does not advance
RECURSIVE DayLoop(_, _, _, _, _, _)
DayLoop(curUTC, endUTC, service, from, to, durationMin) ==
    IF curUTC <= endUTC
    THEN LET curLocal == getZonedParts(curUTC)
             today == DaySlots(curLocal.day, service, from, to, durationMin)
             nextDayUTC == zonedTimeToUtc(curLocal.day, 0, 0)
             nextCur == nextDayUTC + 24 * 60
         IN  IF nextCur <= curUTC
             THEN [returns |-> FALSE, slots |-> today, dates |-> <<curLocal.day>>]
             ELSE LET rest == DayLoop(nextCur, endUTC, service, from, to, durationMin)
                  IN  [returns |-> rest.returns,
                       slots |-> today \o rest.slots,
                       dates |-> <<curLocal.day>> \o rest.dates]
    ELSE [returns |-> TRUE, slots |-> <<>>, dates |-> <<>>]

buildCandidateSlotsZoned(service, from, to, durationMin) ==
    LET fromP == getZonedParts(from)
        toP == getZonedParts(to)
        curUTC == zonedTimeToUtc(fromP.day, 0, 0)
        endUTC == zonedTimeToUtc(toP.day, 23, 59)
    IN  DayLoop(curUTC, endUTC, service, from, to, durationMin)

\* SERVICE_DURATION[service] || SERVICE_DURATION["otro"] || 30
DurationOf(service) ==
    IF service \in DOMAIN cfg.SERVICE_DURATION /\ cfg.SERVICE_DURATION[service] # 0
    THEN cfg.SERVICE_DURATION[service]
    ELSE IF "otro" \in DOMAIN cfg.SERVICE_DURATION /\ cfg.SERVICE_DURATION["otro"] # 0
         THEN cfg.SERVICE_DURATION["otro"]
         ELSE 30

RECURSIVE SeqFilterFree(_, _)
SeqFilterFree(candidates, busyRanges) ==
    IF candidates = <<>> THEN <<>>
    ELSE LET c == Head(candidates)
             keep == ~ \E i \in DOMAIN busyRanges :
                          overlaps(c.start, c.end, busyRanges[i].start, busyRanges[i].end)
         IN  (IF keep THEN <<c>> ELSE <<>>) \o SeqFilterFree(Tail(candidates), busyRanges)

Slice(s, n) == SubSeq(s, 1, IF Len(s) < n THEN Len(s) ELSE n)

\* getAvailableSlotsTool; busyRanges is what getBusyRanges(calendar, from, to) reported
getAvailableSlotsTool(service, from, to, busyRanges) ==
    LET durationMin == DurationOf(service)
        built == buildCandidateSlotsZoned(service, from, to, durationMin)
        free == SeqFilterFree(built.slots, busyRanges)
    IN  [returns |-> built.returns, slots |-> Slice(free, SlotCap)]

-----------------------------------------------------------------------------
(* Specification of the availability query on its own *)

QueryDays == 5 .. (5 + MaxQueryDays)

\* the instant at which the clinic's clocks show minute-of-day m of the given day
LocalToInstant(day, m) ==
    CHOOSE t \in {day * 1440 + m - cfg.CLINIC_TIMEZONE.off0,
                  day * 1440 + m - cfg.CLINIC_TIMEZONE.off1} :
        t + TzOffsetAt(t) = day * 1440 + m

\* local midnight of each day, and two instants inside the day
QueryInstants ==
    {LocalToInstant(d, 0) : d \in QueryDays} \cup
    {d * 1440 + m : d \in QueryDays, m \in {795, 1000}}

QueryServices == {"ortodoncia", "limpieza_prevencion", "blanqueamiento"}

BusyCandidates ==
    {[start |-> 6 * 1440 + 780, end |-> 6 * 1440 + 810],
     [start |-> 6 * 1440 + 1020, end |-> 6 * 1440 + 1070],
     [start |-> 5 * 1440 + 720, end |-> 5 * 1440 + 960],
     [start |-> 7 * 1440 + 735, end |-> 7 * 1440 + 750]}

RECURSIVE SetToSeq(_)
SetToSeq(S) ==
    IF S = {} THEN <<>>
    ELSE LET x == CHOOSE y \in S : \A z \in S : y.start <= z.start
         IN  <<x>> \o SetToSeq(S \ {x})

BusyInputs == {SetToSeq(B) : B \in {X \in SUBSET BusyCandidates : Cardinality(X) <= MaxBusy}}

NoResult == [returns |-> FALSE, slots |-> <<>>]

\* the clock when the query is made: before every range, or after every range (tried
\* for the queries without busy ranges); the query does not read it
QueryClocks == {0, (5 + MaxQueryDays + 2) * 1440 + 14 * 60}

InitSlots ==
    /\ cfg \in Configs
    /\ qry \in [service : QueryServices, from : QueryInstants, to : QueryInstants,
                busy : BusyInputs]
    /\ qry.from < qry.to
    /\ qstage = 0
    /\ res1 = NoResult
    /\ res2 = NoResult
    /\ redis = FALSE
    /\ now \in (IF qry.busy = <<>> THEN QueryClocks ELSE {0})
    /\ store = <<>>
    /\ calendar = <<>>
    /\ retry = {}
    /\ inv = <<>>
    /\ last = <<>>
    /\ reminded = <<>>

Query ==
    /\ qstage = 0
    /\ res1' = getAvailableSlotsTool(qry.service, qry.from, qry.to, qry.busy)
    /\ qstage' = 1
    /\ UNCHANGED <<cfg, qry, res2>>
    /\ UNCHANGED dialogVars

Requery ==
    /\ qstage = 1
    /\ res1.returns
    /\ res2' = getAvailableSlotsTool(qry.service, qry.from, qry.to, qry.busy)
    /\ qstage' = 2
    /\ UNCHANGED <<cfg, qry, res1>>
    /\ UNCHANGED dialogVars

NextSlots == Query \/ Requery

SpecSlots == InitSlots /\ [][NextSlots]_vars

-----------------------------------------------------------------------------
(* Properties of the availability query (checked under SpecSlots) *)

Answered == qstage >= 1 /\ res1.returns

SlotsOf(r) == {r.slots[i] : i \in DOMAIN r.slots}

LocalDay(t) == (t + TzOffsetAt(t)) \div 1440
LocalMinuteOfDay(t) == (t + TzOffsetAt(t)) % 1440

WeekdayKeyOfDay(day) == <<"mon", "tue", "wed", "thu", "fri", "sat", "sun">>[(day % 7) + 1]

\* the duration the configuration gives a service, the generic one when it has none
ConfiguredDuration(service) ==
    IF service \in DOMAIN cfg.SERVICE_DURATION
    THEN cfg.SERVICE_DURATION[service]
    ELSE cfg.SERVICE_DURATION["otro"]

\* C3: every returned slot lies inside [from, to] (from <= start < end <= to) and
\* lasts exactly the duration configured for the service (the generic default
\* duration when the service has none).
C3_SlotsInsideWindow ==
    Answered =>
        \A s \in SlotsOf(res1) :
            /\ qry.from <= s.start
            /\ s.start < s.end
            /\ s.end <= qry.to
            /\ s.end - s.start = ConfiguredDuration(qry.service)

\* a query whose window cuts the working day, for a service without a duration
C3_Witness ==
    /\ Answered
    /\ res1.slots # <<>>
    /\ qry.service \notin DOMAIN cfg.SERVICE_DURATION
    /\ res1.slots[1].start = qry.from

\* C4: no returned slot overlaps a reported busy range (a.start < b.end and
\* a.end > b.start); a free candidate that only touches a busy range at an
\* endpoint is kept (it is returned unless the cap cut it off).
C4_NoBusyOverlap ==
    Answered =>
        /\ \A s \in SlotsOf(res1) : \A i \in DOMAIN qry.busy :
               ~ (s.start < qry.busy[i].end /\ s.end > qry.busy[i].start)
        /\ LET cands == buildCandidateSlotsZoned(qry.service, qry.from, qry.to,
                                                 ConfiguredDuration(qry.service)).slots
           IN  \A k \in DOMAIN cands :
                   LET c == cands[k]
                       touches == \E i \in DOMAIN qry.busy :
                                      c.end = qry.busy[i].start \/ c.start = qry.busy[i].end
                       clear == \A i \in DOMAIN qry.busy :
                                    c.end <= qry.busy[i].start \/ c.start >= qry.busy[i].end
                   IN  (touches /\ clear /\ Len(res1.slots) < SlotCap) => c \in SlotsOf(res1)

\* a returned slot that ends exactly where a busy range starts, with another
\* candidate removed by that busy range
C4_Witness ==
    /\ Answered
    /\ \E s \in SlotsOf(res1) : \E i \in DOMAIN qry.busy :
           /\ s.end = qry.busy[i].start
           /\ [slot_id |-> SlotId(qry.busy[i].start), service |-> s.service,
               start |-> qry.busy[i].start, end |-> qry.busy[i].start + (s.end - s.start)]
                 \notin SlotsOf(res1)

\* C5: every returned slot lies on a clinic-local weekday that has work hours,
\* starts at or after the opening time, ends at or before the closing time and
\* starts on a multiple of SLOT_STEP_MIN; none lies on a closed weekday.
C5_SlotsInsideWorkHours ==
    Answered =>
        \A s \in SlotsOf(res1) :
            LET wh == cfg.WORK_HOURS[WeekdayKeyOfDay(LocalDay(s.start))]
                sm == LocalMinuteOfDay(s.start)
            IN  /\ ~ wh.closed
                /\ sm >= wh.start[1] * 60 + wh.start[2]
                /\ sm + (s.end - s.start) <= wh.end[1] * 60 + wh.end[2]
                /\ sm % cfg.SLOT_STEP_MIN = 0

FreeCandidates ==
    LET cands == buildCandidateSlotsZoned(qry.service, qry.from, qry.to,
                                          ConfiguredDuration(qry.service)).slots
    IN  {c \in {cands[k] : k \in DOMAIN cands} :
            \A i \in DOMAIN qry.busy :
                ~ (c.start < qry.busy[i].end /\ c.end > qry.busy[i].start)}

\* C6: the result has at most 8 slots, is ordered by strictly increasing start
\* (so no slot is repeated), and holds the earliest free candidates: a free
\* candidate is left out only when 8 earlier free candidates exist.
C6_CappedOrderedEarliest ==
    Answered =>
        /\ Len(res1.slots) <= 8
        /\ \A i \in DOMAIN res1.slots : \A j \in DOMAIN res1.slots :
               i < j => res1.slots[i].start < res1.slots[j].start
        /\ \A c \in FreeCandidates :
               c \notin SlotsOf(res1) =>
                   Cardinality({e \in FreeCandidates : e.start < c.start}) >= 8

\* the part of C6 that holds whatever the time zone: the cap and the choice of
\* the first free candidates in generation order
C6_CapHolds ==
    Answered => Len(res1.slots) <= SlotCap

ExpectedDayStarts(day, durationMin) ==
    LET wh == cfg.WORK_HOURS[WeekdayKeyOfDay(day)]
        open == wh.start[1] * 60 + wh.start[2]
        close == wh.end[1] * 60 + wh.end[2]
    IN  {LocalToInstant(day, m) :
            m \in {x \in open .. close : x % cfg.SLOT_STEP_MIN = 0 /\ x + durationMin <= close}}

WholeOpenDayQuery ==
    /\ qry.busy = <<>>
    /\ \E d \in QueryDays :
           /\ qry.from = LocalToInstant(d, 0)
           /\ qry.to = LocalToInstant(d + 1, 0)
           /\ ~ cfg.WORK_HOURS[WeekdayKeyOfDay(d)].closed

\* C8: with no busy ranges and a window covering one whole open local day, the
\* result is exactly the step-aligned starts s with open <= s and
\* s + duration <= close, in order and up to the cap; for 09:00-12:00, step 30
\* and duration 30 these are 09:00, 09:30, 10:00, 10:30, 11:00 and 11:30.
C8_WholeDayResult ==
    (qstage >= 1 /\ WholeOpenDayQuery) =>
        /\ res1.returns
        /\ LET d == LocalDay(qry.from)
               exp == ExpectedDayStarts(d, ConfiguredDuration(qry.service))
               got == {s.start : s \in SlotsOf(res1)}
           IN  /\ got \subseteq exp
               /\ Cardinality(got) = Len(res1.slots)
               /\ \A i \in DOMAIN res1.slots : \A j \in DOMAIN res1.slots :
                      i < j => res1.slots[i].start < res1.slots[j].start
               /\ \A e \in exp : e \notin got =>
                      Cardinality({x \in exp : x < e}) >= SlotCap
               /\ (cfg.WORK_HOURS = exampleWorkHours /\ cfg.SLOT_STEP_MIN = 30
                   /\ ConfiguredDuration(qry.service) = 30) =>
                      [i \in DOMAIN res1.slots |-> LocalMinuteOfDay(res1.slots[i].start)]
                          = <<540, 570, 600, 630, 660, 690>>

-----------------------------------------------------------------------------
(* Incoming texts.  A text is what extractIncomingText returns, trimmed.   *)
(* Three shapes are enough to drive every branch of the dialog:            *)
(*   words  - letters and spaces only (str is the text itself);            *)
(*   time   - one or two digits, optionally ":mm", optionally am/pm with   *)
(*            or without a space before it: "3", "9:00", "3 pm", "9am",    *)
(*            "3:15 pm" (mm = -1 when the minutes are absent);             *)
(*   phone  - three or more digits and nothing else (str is the digits).   *)

Txt(kind, str, hh, mm, mer, gap) ==
    [kind |-> kind, str |-> str, hh |-> hh, mm |-> mm, mer |-> mer, gap |-> gap]

Words(str) == Txt("words", str, 0, -1, "", FALSE)
Clock(hh, mm, mer, gap) == Txt("time", "", hh, mm, mer, gap)
Digits(str) == Txt("phone", str, 0, -1, "", FALSE)

\* the text made of the digits of k alone
BareNumber(k) == Clock(k, -1, "", FALSE)

\* the WhatsApp id of the one patient of the model (msg.from)
Patient == "18095550101"
Users == {Patient}

WordTexts ==
    {"hola", "ortodoncia", "ortodoncia manana", "manana", "cancelar", "reprogramar",
     "confirmar", "nueva cita", "gracias", "Ana Perez", "ok", "servicios", "urgencias",
     "asdf", ""}

ClockTexts ==
    {Clock(1, -1, "", FALSE), Clock(2, -1, "", FALSE), Clock(3, -1, "", FALSE),
     Clock(9, -1, "", FALSE),
     Clock(9, 0, "", FALSE), Clock(8, 15, "am", TRUE), Clock(3, 15, "pm", TRUE),
     Clock(3, -1, "pm", TRUE)}

PhoneTexts == {Digits(Patient), Digits("555123")}

Texts == {Words(w) : w \in WordTexts} \cup ClockTexts \cup PhoneTexts

IsEmptyText(t) == t.kind = "words" /\ t.str = ""

\* the text as a string (String(userText)); a time is not spelled out
Show(t) == IF t.kind = "time" THEN "h:mm" ELSE t.str

DigitsOf(n) == IF n < 10 THEN 1 ELSE 2

\* normalizeText(t).length
TextLen(t) ==
    IF t.kind = "time"
    THEN DigitsOf(t.hh) + (IF t.mm >= 0 THEN 3 ELSE 0) + (IF t.gap THEN 1 ELSE 0)
         + (IF t.mer = "" THEN 0 ELSE 2)
    ELSE Len(t.str)

\* userText.replace(/[^\d]/g, "")
phoneDigits(t) ==
    CASE t.kind = "phone" -> t.str
      [] t.kind = "time" -> "h:mm"
      [] OTHER -> ""

\* phoneDigits.length
phoneDigitsLength(t) ==
    CASE t.kind = "phone" -> Len(t.str)
      [] t.kind = "time" -> DigitsOf(t.hh) + (IF t.mm >= 0 THEN 2 ELSE 0)
      [] OTHER -> 0

\* tNorm.includes(k) for some keyword k of the list, on the words of the model
HasWord(t, ws) == t.kind = "words" /\ t.str \in ws

isGreeting(t) == HasWord(t, {"hola"})
isThanks(t) == HasWord(t, {"gracias", "ok"})
looksLikeConfirm(t) == HasWord(t, {"confirmar"})
looksLikeCancel(t) == HasWord(t, {"cancelar"})
looksLikeReschedule(t) == HasWord(t, {"reprogramar"})
looksLikeNewAppointment(t) == HasWord(t, {"nueva cita"})

\* t === String(n) || t === `${n}.` || t.startsWith(`${n} `)
isChoice(t, n) ==
    /\ t.kind = "time"
    /\ t.hh = n
    /\ \/ t.mm = -1 /\ t.mer = ""
       \/ t.mm = -1 /\ t.gap

\* null is ""
detectServiceKeyFromUser(t) ==
    CASE HasWord(t, {"ortodoncia", "ortodoncia manana"}) -> "ortodoncia"
      [] HasWord(t, {"urgencias"}) -> "urgencias"
      [] OTHER -> ""

startOfLocalDayUTC(date) ==
    LET p == getZonedParts(date) IN zonedTimeToUtc(p.day, 0, 0)

addLocalDaysUTC(dateUTC, days) ==
    LET p == getZonedParts(dateUTC) IN zonedTimeToUtc(p.day + days, 0, 0)

\* null is <<>>; of the date expressions only "manana" is in the model's words
parseDateRangeFromText(t) ==
    IF HasWord(t, {"manana", "ortodoncia manana"})
    THEN LET from == addLocalDaysUTC(startOfLocalDayUTC(now), 1)
         IN  <<[from |-> from, to |-> addLocalDaysUTC(from, 1), label |-> "manana"]>>
    ELSE <<>>

\* tNorm.includes("cita") || "agendar" || "reservar" || "reprogram" || "cancel"
hasIntentWord(t) == HasWord(t, {"nueva cita", "reprogramar", "cancelar"})

\* tNorm.includes("cita") || tNorm.includes("agendar") || tNorm.includes("reservar")
hasBookingWord(t) == HasWord(t, {"nueva cita"})

asksServicesMenu(t) == HasWord(t, {"servicios"})

\* null is <<>>
parseUserTimeTo24h(t) ==
    IF t.kind # "time" THEN <<>>
    ELSE LET mm == IF t.mm >= 0 THEN t.mm ELSE 0
         IN  IF t.hh < 0 \/ t.hh > 23 \/ mm < 0 \/ mm > 59 THEN <<>>
             ELSE IF t.mer \in {"am", "pm"}
                  THEN IF t.hh < 1 \/ t.hh > 12 THEN <<>>
                       ELSE <<[hh |-> CASE t.mer = "pm" /\ t.hh # 12 -> t.hh + 12
                                        [] t.mer = "am" /\ t.hh = 12 -> 0
                                        [] OTHER -> t.hh,
                               mm |-> mm]>>
                  ELSE <<[hh |-> t.hh, mm |-> mm]>>

\* lastSlots.find(s => parts.hour === hh && parts.minute === mm); null is <<>>
findSlotAt(lastSlots, hh, mm) ==
    LET hits == {i \in DOMAIN lastSlots :
                    /\ getZonedParts(lastSlots[i].start).hour = hh
                    /\ getZonedParts(lastSlots[i].start).minute = mm}
    IN  IF hits = {} THEN <<>>
        ELSE <<lastSlots[CHOOSE i \in hits : \A j \in hits : i <= j]>>

\* tryPickSlotFromUserText answering a clock time with a time five minutes after
\* the offered slot
tryPickNearSlot(session, t) ==
    LET pureNumber == t.kind = "time" /\ t.mm = -1 /\ t.mer = ""
        parsed == parseUserTimeTo24h(t)
        byClock == IF parsed = <<>> THEN <<>>
                   ELSE findSlotAt(session.lastSlots, parsed[1].hh, parsed[1].mm)
    IN  IF pureNumber /\ t.hh >= 1 /\ t.hh <= Len(session.lastSlots)
        THEN <<session.lastSlots[t.hh]>>
        ELSE IF byClock # <<>>
             THEN <<[byClock[1] EXCEPT !.start = @ + 5, !.end = @ + 5]>>
             ELSE <<>>

\* null is <<>>
tryPickSlotFromUserText(session, t) ==
    LET pureNumber == t.kind = "time" /\ t.mm = -1 /\ t.mer = ""
        parsed == parseUserTimeTo24h(t)
        byClock == IF parsed = <<>> THEN <<>>
                   ELSE findSlotAt(session.lastSlots, parsed[1].hh, parsed[1].mm)
        oldStyle == IF t.kind = "time" /\ t.mer = ""
                    THEN findSlotAt(session.lastSlots, t.hh, IF t.mm >= 0 THEN t.mm ELSE 0)
                    ELSE <<>>
    IN  IF pureNumber /\ t.hh >= 1 /\ t.hh <= Len(session.lastSlots)
        THEN <<session.lastSlots[t.hh]>>
        ELSE IF byClock # <<>> THEN byClock
             ELSE oldStyle

-----------------------------------------------------------------------------
(* Sessions.  null is "" for a string, 0 for an id and <<>> for an object;   *)
(* messages is the length of session.messages.                               *)

defaultReschedule ==
    [active |-> FALSE, appointment_id |-> 0, phone |-> "", patient_name |-> "",
     service |-> ""]

defaultSession ==
    [messages |-> 0, state |-> "idle", lastSlots |-> <<>>, selectedSlot |-> <<>>,
     pendingService |-> "", pendingRange |-> <<>>, pendingName |-> "",
     lastBooking |-> <<>>, greeted |-> FALSE, lastMsgId |-> 0,
     reschedule |-> defaultReschedule]

MessagesKept == 20
SlotsKept == 10

sanitizeSession(session) ==
    [session EXCEPT !.messages = IF @ > MessagesKept THEN MessagesKept ELSE @,
                    !.lastSlots = Slice(@, SlotsKept)]

getSession(userId) == sanitizeSession(store[userId])

-----------------------------------------------------------------------------
(* One run of a handler.  m.s is the session object, m.cal the calendar,    *)
(* m.sent the WhatsApp messages accepted by the Graph API, m.ops the        *)
(* calendar writes, m.llm the chat completions answered.  Calls to the      *)
(* outside are numbered; the failAt-th one rejects (0: none does),          *)
(* m.thrown tells that an exception is propagating and m.failed which       *)
(* service rejected.                                                        *)

\* F applied to the value of v (const x = v; ... F(x))
Bind(v, F(_)) == CHOOSE r \in {F(x) : x \in {v}} : TRUE

Machine(session, cal, failAt) ==
    [s |-> session, cal |-> cal, sent |-> <<>>, ops |-> <<>>, llm |-> 0,
     calls |-> 0, failAt |-> failAt, thrown |-> FALSE, failed |-> ""]

\* an awaited request to an outside service; nothing runs while an exception propagates
External(m0, service) ==
    Bind(m0, LAMBDA m :
        IF m.thrown THEN m
        ELSE [m EXCEPT !.calls = @ + 1, !.thrown = (m.calls + 1 = m.failAt),
                       !.failed = IF m.calls + 1 = m.failAt THEN service ELSE @])

\* assignments to the session object: G maps the session to the updated one
Assign(m0, G(_)) ==
    Bind(m0, LAMBDA m : IF m.thrown THEN m ELSE [m EXCEPT !.s = G(m.s)])

sendWhatsAppText(m0, to, body) ==
    Bind(External(m0, "whatsapp"), LAMBDA e :
        IF e.thrown THEN e ELSE [e EXCEPT !.sent = Append(@, [to |-> to, body |-> body])])

sendServicesList(m0, to) == sendWhatsAppText(m0, to, "services_list")

-----------------------------------------------------------------------------
(* The calendar.  An event's id is its position in the calendar.            *)

WindowDays == 120

RECURSIVE SortByStart(_, _)
SortByStart(cal, ids) ==
    IF ids = {} THEN <<>>
    ELSE LET i == CHOOSE x \in ids : \A y \in ids :
                      \/ cal[x].start < cal[y].start
                      \/ cal[x].start = cal[y].start /\ x <= y
         IN  <<i>> \o SortByStart(cal, ids \ {i})

\* events.list({timeMin, timeMax, singleEvents, orderBy: "startTime"})
eventsList(cal, timeMin, timeMax) ==
    SortByStart(cal, {i \in DOMAIN cal : cal[i].end > timeMin /\ cal[i].start < timeMax})

\* the body of findUpcomingAppointmentByPhone's try block; null is <<>>
firstAppointmentOf(cal, phone) ==
    Bind(eventsList(cal, now, now + WindowDays * 24 * 60), LAMBDA listed :
        LET hits == {k \in DOMAIN listed :
                        /\ cal[listed[k]].priv.status # "cancelled"
                        /\ cal[listed[k]].priv.wa_phone # ""
                        /\ cal[listed[k]].priv.wa_phone = phone}
        IN  IF hits = {} THEN <<>>
            ELSE Bind(listed[CHOOSE k \in hits : \A j \in hits : k <= j], LAMBDA id :
                     <<[appointment_id |-> id, start |-> cal[id].start, end |-> cal[id].end,
                        service |-> IF cal[id].priv.service = "" THEN "limpieza_prevencion"
                                    ELSE cal[id].priv.service,
                        patient_name |-> cal[id].priv.patient_name, phone |-> phone]>>))

\* the lookup with its catch: a failed events.list is logged and yields null
findUpcomingAppointmentByPhone(m0, phone) ==
    Bind(External(m0, "calendar"), LAMBDA e :
        [m |-> [e EXCEPT !.thrown = FALSE, !.failed = ""],
         found |-> IF e.thrown THEN <<>> ELSE firstAppointmentOf(e.cal, phone)])

\* freebusy.query: the events of the calendar that meet [timeMin, timeMax]
getBusyRanges(cal, timeMin, timeMax) ==
    Bind(eventsList(cal, timeMin, timeMax), LAMBDA ids :
        [k \in DOMAIN ids |-> [start |-> cal[ids[k]].start, end |-> cal[ids[k]].end]])

\* getAvailableSlotsTool as the handlers call it: [m, slots]
availableSlots(m0, service, from, to) ==
    Bind(External(m0, "calendar"), LAMBDA e :
        [m |-> e,
         slots |-> IF e.thrown THEN <<>>
                   ELSE getAvailableSlotsTool(service, from, to,
                                              getBusyRanges(e.cal, from, to)).slots])

\* a slot instant that is missing (undefined, null or "")
NoInstant == -1

\* throw new Error("Missing slot_start/slot_end") (src/index.js:853)
missingSlot(m0) ==
    Bind(m0, LAMBDA m :
        IF m.thrown THEN m ELSE [m EXCEPT !.thrown = TRUE, !.failed = "booking"])

\* the mutant of bookAppointmentTool that does not test the slot instants
bookWithoutSlotTest(m0, patient_name, phone, slot_id, service, slot_start, slot_end, wa_id) ==
    Bind(External(m0, "calendar"), LAMBDA e :
        IF e.thrown THEN [m |-> e, booked |-> <<>>]
        ELSE [m |-> [e EXCEPT
                       !.cal = Append(@,
                           [start |-> slot_start, end |-> slot_end,
                            description |-> <<[part |-> "booking",
                                               text |-> <<patient_name, phone, service,
                                                          slot_id>>]>>,
                            priv |-> [wa_phone |-> phone, wa_id |-> wa_id,
                                      patient_name |-> patient_name, service |-> service,
                                      slot_id |-> slot_id, reminder24hSent |-> "false",
                                      reminder2hSent |-> "false", status |-> ""]]),
                       !.ops = Append(@, "insert")],
              booked |-> <<[appointment_id |-> Len(e.cal) + 1, start |-> slot_start,
                            end |-> slot_end, service |-> service,
                            patient_name |-> patient_name, phone |-> phone]>>])

\* [m, booked]
bookAppointmentTool(m0, patient_name, phone, slot_id, service, slot_start, slot_end, wa_id) ==
    IF slot_start = NoInstant \/ slot_end = NoInstant
    THEN [m |-> missingSlot(m0), booked |-> <<>>]
    ELSE Bind(External(m0, "calendar"), LAMBDA e :
        IF e.thrown THEN [m |-> e, booked |-> <<>>]
        ELSE [m |-> [e EXCEPT
                       !.cal = Append(@,
                           [start |-> slot_start, end |-> slot_end,
                            description |-> <<[part |-> "booking",
                                               text |-> <<patient_name, phone, service,
                                                          slot_id>>]>>,
                            priv |-> [wa_phone |-> phone, wa_id |-> wa_id,
                                      patient_name |-> patient_name, service |-> service,
                                      slot_id |-> slot_id, reminder24hSent |-> "false",
                                      reminder2hSent |-> "false", status |-> ""]]),
                       !.ops = Append(@, "insert")],
              booked |-> <<[appointment_id |-> Len(e.cal) + 1, start |-> slot_start,
                            end |-> slot_end, service |-> service,
                            patient_name |-> patient_name, phone |-> phone]>>])

\* a || b on strings
Or(a, b) == IF a # "" THEN a ELSE b

\* the strings of the model that begin or end with white space, and what is between
Untrimmed == (" Ana Perez " :> "Ana Perez") @@ (" ortodoncia" :> "ortodoncia") @@ ("  " :> "")

\* String(x).trim()
trim(str) == IF str \in DOMAIN Untrimmed THEN Untrimmed[str] ELSE str

\* nextPrivField without the fall-back to the stored value
nextPrivFieldFromOverride(override, current) == trim(override)

\* String(override || priv.field || "").trim(), written to nextPriv when not empty
nextPrivField(override, current) ==
    Bind(trim(Or(override, current)), LAMBDA next : IF next # "" THEN next ELSE current)

\* rescheduleAppointmentTool without the reset of the two reminder flags
rescheduleKeepingFlags(m0, appointment_id, new_slot_id, new_start, new_end, service, patient_name, phone, wa_id) ==
    Bind(External(External(m0, "calendar"), "calendar"), LAMBDA e :
        IF e.thrown THEN e
        ELSE Bind(e.cal[appointment_id].priv, LAMBDA priv :
                 [e EXCEPT
                    !.cal[appointment_id] =
                        [@ EXCEPT
                           !.start = new_start,
                           !.end = new_end,
                           !.priv = [priv EXCEPT
                                       !.slot_id = new_slot_id,
                                       !.service = nextPrivField(service, @),
                                       !.patient_name = nextPrivField(patient_name, @),
                                       !.wa_phone = nextPrivField(phone, @),
                                       !.wa_id = nextPrivField(wa_id, @)]],
                    !.ops = Append(@, "patch")]))

\* events.get, then events.patch
rescheduleAppointmentTool(m0, appointment_id, new_slot_id, new_start, new_end, service, patient_name, phone, wa_id) ==
    Bind(External(External(m0, "calendar"), "calendar"), LAMBDA e :
        IF e.thrown THEN e
        ELSE Bind(e.cal[appointment_id].priv, LAMBDA priv :
                 [e EXCEPT
                    !.cal[appointment_id] =
                        [@ EXCEPT
                           !.start = new_start,
                           !.end = new_end,
                           !.priv = [priv EXCEPT
                                       !.slot_id = new_slot_id,
                                       !.reminder24hSent = "false",
                                       !.reminder2hSent = "false",
                                       !.service = nextPrivField(service, @),
                                       !.patient_name = nextPrivField(patient_name, @),
                                       !.wa_phone = nextPrivField(phone, @),
                                       !.wa_id = nextPrivField(wa_id, @)]],
                    !.ops = Append(@, "patch")]))

\* cancelAppointmentTool writing private: {status: "cancelled"} without the stored fields
cancelReplacingPrivate(m0, appointment_id, reason) ==
    Bind(External(External(m0, "calendar"), "calendar"), LAMBDA e :
        IF e.thrown THEN e
        ELSE [e EXCEPT !.cal[appointment_id].priv =
                           [wa_phone |-> "", wa_id |-> "", patient_name |-> "",
                            service |-> "", slot_id |-> <<>>, reminder24hSent |-> "",
                            reminder2hSent |-> "", status |-> "cancelled"],
                       !.cal[appointment_id].description =
                           Append(@, [part |-> "Cancelacion", text |-> <<reason>>]),
                       !.ops = Append(@, "patch")])

\* events.get, then events.patch
cancelAppointmentTool(m0, appointment_id, reason) ==
    Bind(External(External(m0, "calendar"), "calendar"), LAMBDA e :
        IF e.thrown THEN e
        ELSE [e EXCEPT !.cal[appointment_id].priv.status = "cancelled",
                       !.cal[appointment_id].description =
                           Append(@, [part |-> "Cancelacion", text |-> <<reason>>]),
                       !.ops = Append(@, "patch")])

-----------------------------------------------------------------------------
(* Reminders: reminderLoop, run by GET /tick                                *)

\* the strings of the model that hold more than digits, and their digits
NonDigits == (" Ana Perez " :> "") @@ ("Ana Perez" :> "") @@ ("  " :> "")

\* String(raw || "").replace(/[^\d]/g, "")
normalizePhoneDigits(raw) == IF raw \in DOMAIN NonDigits THEN NonDigits[raw] ELSE raw

toE164DigitsRD(digits) ==
    Bind(normalizePhoneDigits(digits), LAMBDA d : IF Len(d) = 10 THEN "1" \o d ELSE d)

\* the candidates of sendReminderWhatsAppToBestTarget, in order
reminderCandidates(priv, fallbackPhoneDigits) ==
    (IF priv.wa_id # "" THEN <<trim(priv.wa_id)>> ELSE <<>>)
        \o (IF priv.wa_phone # "" THEN <<toE164DigitsRD(priv.wa_phone)>> ELSE <<>>)
        \o (IF fallbackPhoneDigits # "" THEN <<toE164DigitsRD(fallbackPhoneDigits)>>
            ELSE <<>>)

\* the for loop over the candidates: [m, ok]
RECURSIVE tryCandidates(_, _, _, _)
tryCandidates(m, candidates, tried, body) ==
    IF candidates = <<>> THEN [m |-> m, ok |-> FALSE]
    ELSE Bind(normalizePhoneDigits(Head(candidates)), LAMBDA to :
             IF to = "" \/ to \in tried
             THEN tryCandidates(m, Tail(candidates), tried, body)
             ELSE Bind(sendWhatsAppText(m, to, body), LAMBDA e :
                      IF e.thrown
                      THEN tryCandidates([e EXCEPT !.thrown = FALSE], Tail(candidates),
                                         tried \cup {to}, body)
                      ELSE [m |-> e, ok |-> TRUE]))

sendReminderWhatsAppToBestTarget(m, priv, fallbackPhoneDigits, body) ==
    tryCandidates(m, reminderCandidates(priv, fallbackPhoneDigits), {}, body)

SweepHours == 26
MaxResults == 50

\* events.list({timeMin: now, timeMax: in26h, orderBy: "startTime", maxResults: 50})
reminderList(cal, t) == Slice(eventsList(cal, t, t + SweepHours * 60), MaxResults)

in24hWindow(minutesToStart) == minutesToStart <= 25 * 60 /\ minutesToStart >= 23 * 60
in2hWindow(minutesToStart) == minutesToStart <= 135 /\ minutesToStart >= 90

\* dueReminders without the tests of the reminder flags
dueRemindersIgnoringFlags(ev, t) ==
    IF ev.priv.status = "cancelled" \/ ev.priv.wa_phone = "" THEN <<>>
    ELSE (IF cfg.REMINDER_24H /\ in24hWindow(ev.start - t)
          THEN <<[flag |-> "reminder24hSent", body |-> "reminder24h"]>> ELSE <<>>)
         \o (IF cfg.REMINDER_2H /\ in2hWindow(ev.start - t)
             THEN <<[flag |-> "reminder2hSent", body |-> "reminder2h"]>> ELSE <<>>)

\* dueReminders without the test of the status
dueRemindersOfCancelled(ev, t) ==
    IF ev.priv.wa_phone = "" THEN <<>>
    ELSE (IF cfg.REMINDER_24H /\ in24hWindow(ev.start - t)
             /\ ev.priv.reminder24hSent # "true"
          THEN <<[flag |-> "reminder24hSent", body |-> "reminder24h"]>> ELSE <<>>)
         \o (IF cfg.REMINDER_2H /\ in2hWindow(ev.start - t)
                /\ ev.priv.reminder2hSent # "true"
             THEN <<[flag |-> "reminder2hSent", body |-> "reminder2h"]>> ELSE <<>>)

\* the reminders the loop body sends for a listed event ev at instant t, in order:
\* the flag each one tests and sets, and its message
dueReminders(ev, t) ==
    IF ev.priv.status = "cancelled" \/ ev.priv.wa_phone = "" THEN <<>>
    ELSE (IF cfg.REMINDER_24H /\ in24hWindow(ev.start - t)
             /\ ev.priv.reminder24hSent # "true"
          THEN <<[flag |-> "reminder24hSent", body |-> "reminder24h"]>> ELSE <<>>)
         \o (IF cfg.REMINDER_2H /\ in2hWindow(ev.start - t)
                /\ ev.priv.reminder2hSent # "true"
             THEN <<[flag |-> "reminder2hSent", body |-> "reminder2h"]>> ELSE <<>>)

\* events.patch({extendedProperties: {private: {...priv, [flag]: "true"}}}), priv as listed
patchReminderFlag(m0, id, priv, flag) ==
    Bind(External(m0, "calendar"), LAMBDA e :
        IF e.thrown THEN e
        ELSE [e EXCEPT !.cal[id].priv = [priv EXCEPT ![flag] = "true"],
                       !.ops = Append(@, "patch")])

\* remindOnce patching the flag whether or not the reminder was sent
remindOncePatchingUnsent(st, id, priv, due) ==
    IF st.m.thrown THEN st
    ELSE Bind(sendReminderWhatsAppToBestTarget(st.m, priv, priv.wa_phone, due.body),
              LAMBDA sendRes :
                  [m |-> patchReminderFlag(sendRes.m, id, priv, due.flag),
                   reminders |-> IF sendRes.ok
                                 THEN Append(st.reminders, [id |-> id, flag |-> due.flag])
                                 ELSE st.reminders])

\* one "if (... && priv.reminderXSent !== "true") { send; if ok patch }" of the loop
\* body; st is [m, reminders], reminders the messages delivered so far
remindOnce(st, id, priv, due) ==
    IF st.m.thrown THEN st
    ELSE Bind(sendReminderWhatsAppToBestTarget(st.m, priv, priv.wa_phone, due.body),
              LAMBDA sendRes :
                  IF sendRes.ok
                  THEN [m |-> patchReminderFlag(sendRes.m, id, priv, due.flag),
                        reminders |-> Append(st.reminders, [id |-> id, flag |-> due.flag])]
                  ELSE [m |-> sendRes.m, reminders |-> st.reminders])

RECURSIVE remindEach(_, _, _, _)
remindEach(st, id, priv, dues) ==
    IF dues = <<>> THEN st
    ELSE remindEach(remindOnce(st, id, priv, Head(dues)), id, priv, Tail(dues))

\* for (const ev of events) { ... }, events as listed
RECURSIVE reminderEvents(_, _, _, _)
reminderEvents(st, listed, ids, t) ==
    IF ids = <<>> \/ st.m.thrown THEN st
    ELSE reminderEvents(remindEach(st, Head(ids), listed[Head(ids)].priv,
                                   dueReminders(listed[Head(ids)], t)),
                        listed, Tail(ids), t)

\* reminderLoop at instant t: [m, reminders]; the catch logs the exception
reminderLoop(cal, t, failAt) ==
    Bind(External(Machine(<<>>, cal, failAt), "calendar"), LAMBDA e :
        IF e.thrown THEN [m |-> e, reminders |-> <<>>]
        ELSE reminderEvents([m |-> e, reminders |-> <<>>], cal, reminderList(cal, t), t))

-----------------------------------------------------------------------------
(* The language model.  Its answer is an input of the handler: the tools it *)
(* asks for, and whether the text of the reply contains the word            *)
(* "servicio".                                                              *)

\* a completion that asks for no tool
Says(servicio) == [servicio |-> servicio, tool_calls |-> <<>>]

LlmReplies == {Says(FALSE), Says(TRUE)}

\* one pass of the loop over msg.tool_calls (src/index.js:1323-1350)
toolCall(m, tc) ==
    CASE tc.name = "book_appointment" ->
            bookAppointmentTool(m, tc.args.patient_name, tc.args.phone, tc.args.slot_id,
                                tc.args.service, tc.args.slot_start, tc.args.slot_end, "").m
      [] tc.name = "reschedule_appointment" ->
            rescheduleAppointmentTool(m, tc.args.appointment_id, tc.args.new_slot_id,
                                      tc.args.new_start, tc.args.new_end, "", "", "", "")
      [] tc.name = "cancel_appointment" ->
            cancelAppointmentTool(m, tc.args.appointment_id, tc.args.reason)
      [] OTHER -> m

RECURSIVE toolCalls(_, _)
toolCalls(m, tcs) ==
    IF tcs = <<>> THEN m ELSE toolCalls(toolCall(m, Head(tcs)), Tail(tcs))

\* [m, reply]; the user's message is pushed before the request, the answer after the
\* last completion
callOpenAI(m0, reply) ==
    Bind(External(Assign(m0, LAMBDA s : [s EXCEPT !.messages = @ + 1]), "llm"), LAMBDA e :
        IF e.thrown THEN [m |-> e, reply |-> reply]
        ELSE IF reply.tool_calls # <<>>
        THEN Bind(External(toolCalls([e EXCEPT !.llm = @ + 1], reply.tool_calls), "llm"),
                  LAMBDA f :
                      IF f.thrown THEN [m |-> f, reply |-> reply]
                      ELSE [m |-> [f EXCEPT !.llm = @ + 1, !.s.messages = @ + 1],
                            reply |-> reply])
        ELSE [m |-> [e EXCEPT !.llm = @ + 1, !.s.messages = @ + 1], reply |-> reply])

-----------------------------------------------------------------------------
(* POST /webhook, from the dedupe test to the response                      *)

\* PostBooking starting a reschedule without leaving post_booking
PostBookingKeepingState(m, from, t, wantsConfirm, wantsCancel, wantsReschedule) ==
    Bind(m.s.lastBooking[1], LAMBDA b :
        CASE wantsConfirm -> sendWhatsAppText(m, from, "confirmed")
          [] ~wantsConfirm /\ wantsCancel ->
                Assign(sendWhatsAppText(
                           cancelAppointmentTool(m, b.appointment_id, Show(t)),
                           from, "cancelled"),
                       LAMBDA s : [s EXCEPT !.state = "idle", !.lastSlots = <<>>,
                                            !.selectedSlot = <<>>, !.pendingService = "",
                                            !.pendingRange = <<>>, !.pendingName = "",
                                            !.lastBooking = <<>>,
                                            !.reschedule = defaultReschedule])
          [] ~wantsConfirm /\ ~wantsCancel /\ wantsReschedule ->
                sendWhatsAppText(
                    Assign(m, LAMBDA s :
                        [s EXCEPT !.reschedule =
                                      [active |-> TRUE, appointment_id |-> b.appointment_id,
                                       phone |-> Or(b.phone, from),
                                       patient_name |-> b.patient_name,
                                       service |-> b.service],
                                  !.pendingService = Or(b.service, @),
                                  !.lastSlots = <<>>,
                                  !.selectedSlot = <<>>, !.pendingRange = <<>>,
                                  !.pendingName = ""]),
                    from, "reschedule_ask_day")
          [] OTHER ->
                IF looksLikeNewAppointment(t)
                THEN sendServicesList(
                         sendWhatsAppText(
                             Assign(m, LAMBDA s : [s EXCEPT !.state = "idle",
                                                            !.reschedule = defaultReschedule]),
                             from, "new_appointment"),
                         from)
                ELSE IF isThanks(t)
                     THEN sendWhatsAppText(m, from, "thanks_confirmed")
                     ELSE sendWhatsAppText(m, from, "post_booking_help"))

\* the post_booking branch (src/index.js:1559-1641)
PostBooking(m, from, t, wantsConfirm, wantsCancel, wantsReschedule) ==
    Bind(m.s.lastBooking[1], LAMBDA b :
        CASE wantsConfirm -> sendWhatsAppText(m, from, "confirmed")
          [] ~wantsConfirm /\ wantsCancel ->
                Assign(sendWhatsAppText(
                           cancelAppointmentTool(m, b.appointment_id, Show(t)),
                           from, "cancelled"),
                       LAMBDA s : [s EXCEPT !.state = "idle", !.lastSlots = <<>>,
                                            !.selectedSlot = <<>>, !.pendingService = "",
                                            !.pendingRange = <<>>, !.pendingName = "",
                                            !.lastBooking = <<>>,
                                            !.reschedule = defaultReschedule])
          [] ~wantsConfirm /\ ~wantsCancel /\ wantsReschedule ->
                sendWhatsAppText(
                    Assign(m, LAMBDA s :
                        [s EXCEPT !.reschedule =
                                      [active |-> TRUE, appointment_id |-> b.appointment_id,
                                       phone |-> Or(b.phone, from),
                                       patient_name |-> b.patient_name,
                                       service |-> b.service],
                                  !.pendingService = Or(b.service, @),
                                  !.state = "await_day", !.lastSlots = <<>>,
                                  !.selectedSlot = <<>>, !.pendingRange = <<>>,
                                  !.pendingName = ""]),
                    from, "reschedule_ask_day")
          [] OTHER ->
                IF looksLikeNewAppointment(t)
                THEN sendServicesList(
                         sendWhatsAppText(
                             Assign(m, LAMBDA s : [s EXCEPT !.state = "idle",
                                                            !.reschedule = defaultReschedule]),
                             from, "new_appointment"),
                         from)
                ELSE IF isThanks(t)
                     THEN sendWhatsAppText(m, from, "thanks_confirmed")
                     ELSE sendWhatsAppText(m, from, "post_booking_help"))

\* RescheduleTo booking the picked slot as a new event instead of moving the existing one
RescheduleByBooking(m, from, picked) ==
    Bind(m.s.reschedule, LAMBDA re :
    Bind(Or(Or(m.s.pendingService, picked.service), re.service), LAMBDA nextService :
    Bind(bookAppointmentTool(m, re.patient_name, Or(re.phone, from), picked.slot_id,
                             nextService, picked.start, picked.end, from),
         LAMBDA w :
        sendWhatsAppText(
            Assign(w.m,
                   LAMBDA s :
                       [s EXCEPT
                          !.lastBooking = w.booked,
                          !.state = "post_booking", !.lastSlots = <<>>,
                          !.selectedSlot = <<>>, !.pendingRange = <<>>,
                          !.pendingName = "", !.reschedule = defaultReschedule]),
            from, "rescheduled"))))

\* the reschedule of the await_slot_choice branch (src/index.js:1657-1698)
RescheduleTo(m, from, picked) ==
    Bind(m.s.reschedule, LAMBDA re :
    Bind(Or(Or(m.s.pendingService, picked.service), re.service), LAMBDA nextService :
    Bind(IF m.s.lastBooking = <<>> THEN "" ELSE m.s.lastBooking[1].patient_name,
         LAMBDA bookedName :
        sendWhatsAppText(
            Assign(rescheduleAppointmentTool(m, re.appointment_id, picked.slot_id,
                                             picked.start, picked.end, nextService,
                                             re.patient_name, Or(re.phone, from), from),
                   LAMBDA s :
                       [s EXCEPT
                          !.lastBooking =
                              <<[appointment_id |-> re.appointment_id,
                                 start |-> picked.start, end |-> picked.end,
                                 service |-> nextService,
                                 patient_name |-> Or(re.patient_name, bookedName),
                                 phone |-> Or(re.phone, from)]>>,
                          !.state = "post_booking", !.lastSlots = <<>>,
                          !.selectedSlot = <<>>, !.pendingRange = <<>>,
                          !.pendingName = "", !.reschedule = defaultReschedule]),
            from, "rescheduled"))))

\* the await_slot_choice branch (src/index.js:1646-1708)
AwaitSlotChoice(m, from, t) ==
    Bind(tryPickSlotFromUserText(m.s, t), LAMBDA picked :
        IF picked = <<>> THEN sendWhatsAppText(m, from, "slot_not_understood")
        ELSE IF m.s.reschedule.active /\ m.s.reschedule.appointment_id # 0
             THEN RescheduleTo(m, from, picked[1])
             ELSE sendWhatsAppText(
                      Assign(m, LAMBDA s : [s EXCEPT !.selectedSlot = picked,
                                                     !.state = "await_name"]),
                      from, "slot_selected"))

\* the await_name branch (src/index.js:1713-1722)
AwaitName(m, from, t) ==
    IF TextLen(t) < 3 \/ HasWord(t, {"si", "ok", "listo"})
    THEN sendWhatsAppText(m, from, "ask_full_name")
    ELSE sendWhatsAppText(
             Assign(m, LAMBDA s : [s EXCEPT !.pendingName = Show(t),
                                            !.state = "await_phone"]),
             from, "ask_phone")

\* the await_phone branch (src/index.js:1727-1764); PERSONAL_WA_TO is unset,
\* so notifyPersonalWhatsAppBookingSummary returns at once
AwaitPhone(m, from, t) ==
    IF phoneDigitsLength(t) < 8 THEN sendWhatsAppText(m, from, "phone_incomplete")
    ELSE Bind(m.s.selectedSlot[1], LAMBDA slot :
         Bind(bookAppointmentTool(m, m.s.pendingName, phoneDigits(t), slot.slot_id,
                                  Or(m.s.pendingService, slot.service),
                                  slot.start, slot.end, from), LAMBDA bk :
             Assign(sendWhatsAppText(bk.m, from, "booked"),
                    LAMBDA s : [s EXCEPT !.lastBooking = bk.booked,
                                         !.state = "post_booking",
                                         !.lastSlots = <<>>, !.selectedSlot = <<>>,
                                         !.pendingName = "", !.pendingRange = <<>>,
                                         !.reschedule = defaultReschedule])))

\* offering the slots of a range (src/index.js:1816-1833 and 1839-1855)
OfferSlots(m, from, service, range, noSlotsState) ==
    Bind(availableSlots(m, service, range.from, range.to), LAMBDA q :
        IF q.m.thrown THEN q.m
        ELSE IF q.slots = <<>>
             THEN Assign(sendWhatsAppText(q.m, from, "no_slots"),
                         LAMBDA s : [s EXCEPT !.state = noSlotsState])
             ELSE sendWhatsAppText(
                      Assign(q.m, LAMBDA s : [s EXCEPT !.pendingRange = <<range>>,
                                                       !.lastSlots = q.slots,
                                                       !.state = "await_slot_choice"]),
                      from, "slots_list"))

\* the fallback (src/index.js:1870-1886)
Fallback(m, from, llmReply) ==
    Bind(callOpenAI(m, llmReply), LAMBDA c :
        IF c.reply.servicio
        THEN sendServicesList(
                 sendWhatsAppText(sendWhatsAppText(c.m, from, "llm_reply"),
                                  from, "services_emoji"),
                 from)
        ELSE sendWhatsAppText(c.m, from, "llm_reply"))

\* from the menu question to the fallback (src/index.js:1769-1886)
Intent(m, from, t, llmReply) ==
    Bind(detectServiceKeyFromUser(t), LAMBDA serviceKey :
    Bind(parseDateRangeFromText(t), LAMBDA range :
        CASE asksServicesMenu(t) ->
                sendServicesList(sendWhatsAppText(m, from, "services_emoji"), from)
          [] ~asksServicesMenu(t) /\ serviceKey = "urgencias" ->
                sendWhatsAppText(m, from, "urgencias")
          [] ~asksServicesMenu(t) /\ serviceKey = "" /\ hasBookingWord(t) ->
                sendServicesList(
                    sendWhatsAppText(sendWhatsAppText(m, from, "ask_service"),
                                     from, "services_emoji"), from)
          [] ~asksServicesMenu(t) /\ serviceKey \notin {"", "urgencias"} ->
                IF range = <<>>
                THEN sendWhatsAppText(
                         Assign(m, LAMBDA s : [s EXCEPT !.pendingService = serviceKey,
                                                        !.state = "await_day"]),
                         from, "ask_day")
                ELSE Bind(Assign(m, LAMBDA s : [s EXCEPT !.pendingService = serviceKey]),
                          LAMBDA a : OfferSlots(a, from, serviceKey, range[1], "await_day"))
          [] OTHER ->
                IF m.s.pendingService # "" /\ range # <<>>
                THEN OfferSlots(m, from, m.s.pendingService, range[1], m.s.state)
                ELSE IF m.s.pendingService # "" /\ m.s.state = "await_day"
                     THEN sendWhatsAppText(m, from, "day_hint")
                     ELSE Fallback(m, from, llmReply)))

\* the state dispatch (src/index.js:1559-1886)
Dispatch(m, from, t, llmReply, wantsConfirm, wantsCancel, wantsReschedule) ==
    CASE m.s.state = "post_booking" /\ m.s.lastBooking # <<>> ->
            PostBooking(m, from, t, wantsConfirm, wantsCancel, wantsReschedule)
      [] m.s.state = "await_slot_choice" /\ m.s.lastSlots # <<>> ->
            AwaitSlotChoice(m, from, t)
      [] m.s.state = "await_name" /\ m.s.selectedSlot # <<>> ->
            AwaitName(m, from, t)
      [] m.s.state = "await_phone" /\ m.s.selectedSlot # <<>> /\ m.s.pendingName # "" ->
            AwaitPhone(m, from, t)
      [] OTHER -> Intent(m, from, t, llmReply)

\* Lookup moving to post_booking whether or not an appointment was found
LookupIgnoringFound(m, from) ==
    Bind(findUpcomingAppointmentByPhone(m, from), LAMBDA look :
        Assign(look.m, LAMBDA s : [s EXCEPT !.lastBooking = look.found,
                                            !.state = "post_booking"]))

\* the calendar lookup before the dispatch (src/index.js:1518-1524)
Lookup(m, from) ==
    Bind(findUpcomingAppointmentByPhone(m, from), LAMBDA look :
        IF look.found # <<>>
        THEN Assign(look.m, LAMBDA s : [s EXCEPT !.lastBooking = look.found,
                                                 !.state = "post_booking"])
        ELSE look.m)

\* the greeting branches, then the dispatch (src/index.js:1529-1886)
Greet(m, from, t, llmReply, wantsConfirm, wantsCancel, wantsReschedule) ==
    Bind(\/ detectServiceKeyFromUser(t) # ""
         \/ parseDateRangeFromText(t) # <<>>
         \/ hasIntentWord(t), LAMBDA hasEarlyIntent :
        IF m.s.state = "idle" /\ isGreeting(t) /\ ~hasEarlyIntent
        THEN IF m.s.greeted
             THEN sendWhatsAppText(m, from, "quick_help")
             ELSE sendServicesList(
                      sendWhatsAppText(Assign(m, LAMBDA s : [s EXCEPT !.greeted = TRUE]),
                                       from, "services_emoji"),
                      from)
        ELSE Bind(IF ~m.s.greeted /\ m.s.state = "idle"
                  THEN Assign(m, LAMBDA s : [s EXCEPT !.greeted = TRUE])
                  ELSE m,
                  LAMBDA g : Dispatch(g, from, t, llmReply,
                                      wantsConfirm, wantsCancel, wantsReschedule)))

\* from the calendar lookup to the response (src/index.js:1514-1886)
Dialog(m, from, t, llmReply) ==
    Bind(looksLikeCancel(t) \/ isChoice(t, 3), LAMBDA wantsCancel :
    Bind(looksLikeReschedule(t) \/ isChoice(t, 2), LAMBDA wantsReschedule :
    Bind(looksLikeConfirm(t) \/ isChoice(t, 1), LAMBDA wantsConfirm :
    Bind(IF (wantsCancel \/ wantsReschedule \/ wantsConfirm) /\ m.s.lastBooking = <<>>
         THEN Lookup(m, from)
         ELSE m,
         LAMBDA looked : Greet(looked, from, t, llmReply,
                               wantsConfirm, wantsCancel, wantsReschedule)))))

\* the handler after the dedupe test (src/index.js:1492-1886)
Body(marked, from, t, llmReply) ==
    IF IsEmptyText(t) THEN marked ELSE Dialog(marked, from, t, llmReply)

\* the dedupe test on a loaded session (src/index.js:1489)
IsDuplicate(session, msgId) == msgId # 0 /\ session.lastMsgId = msgId

\* session.lastMsgId = msgId (src/index.js:1490)
Mark(session, msgId) == [session EXCEPT !.lastMsgId = IF msgId # 0 THEN msgId ELSE @]

\* the handler up to its response: [m, duplicate]
Webhook(session, cal, from, msgId, t, failAt, llmReply) ==
    IF IsDuplicate(session, msgId)
    THEN [m |-> Machine(session, cal, failAt), duplicate |-> TRUE]
    ELSE Bind(Machine(Mark(session, msgId), cal, failAt), LAMBDA marked :
             [m |-> Body(marked, from, t, llmReply), duplicate |-> FALSE])

-----------------------------------------------------------------------------
(* Specification of the dialog: deliveries handled one after the other.     *)
(* A delivery runs the whole handler: getSession, the dialog, the response  *)
(* and saveSession in the finally block.  No call to the outside fails.     *)

DialogConfig ==
    [CLINIC_TIMEZONE |-> TzSantoDomingo, WORK_HOURS |-> defaultWorkHours,
     SERVICE_DURATION |-> defaultServiceDuration, SLOT_STEP_MIN |-> 15]

\* Tuesday of the first week, 10:00 in Santo Domingo
StartInstant == 1 * 1440 + 14 * 60

NoInvocation ==
    [redelivered |-> FALSE, duplicate |-> FALSE, changed |-> FALSE, sent |-> <<>>,
     ops |-> <<>>, llm |-> 0, thrown |-> FALSE]

MsgIds == 1 .. (MaxRetry + 2)

\* the id Meta gives to a new message: one that no party remembers
FreshId(u) ==
    CHOOSE i \in MsgIds :
        /\ i # store[u].lastMsgId
        /\ \A r \in retry : r.msgId # i
        /\ \A j \in MsgIds :
               (j # store[u].lastMsgId /\ \A r \in retry : r.msgId # j) => i <= j

\* the fields of a session that carry the dialog (all but the dedupe mark)
DialogFields(session) == [session EXCEPT !.lastMsgId = 0]

Init ==
    /\ cfg = DialogConfig
    /\ qry = <<>>
    /\ qstage = 0
    /\ res1 = NoResult
    /\ res2 = NoResult
    /\ redis = FALSE
    /\ now = StartInstant
    /\ store = [u \in Users |-> defaultSession]
    /\ calendar = <<>>
    /\ retry = {}
    /\ inv = <<>>
    /\ last = NoInvocation
    /\ reminded = <<>>

\* the handler's runs on one message: one for each answer the language model
\* may give, when the handler asks it
Runs(u, msgId, t, failAt) ==
    Bind(Webhook(getSession(u), calendar, u, msgId, t, failAt, Says(FALSE)),
         LAMBDA quiet :
             IF quiet.m.llm = 0 THEN {quiet}
             ELSE {quiet, Webhook(getSession(u), calendar, u, msgId, t, failAt,
                                  Says(TRUE))})

\* POST /webhook for one message, start to finish
HandleWithin(u, msgId, t, failAt, redelivered, maxEvents) ==
    \E w \in Runs(u, msgId, t, failAt) :
    \E saved \in {sanitizeSession(w.m.s)} :
        /\ Len(w.m.cal) <= maxEvents
        /\ saved.messages <= 2 * MaxLlmTurns
        /\ store' = [store EXCEPT ![u] = saved]
        /\ calendar' = w.m.cal
        /\ last' = [redelivered |-> redelivered, duplicate |-> w.duplicate,
                    changed |-> DialogFields(saved) # DialogFields(store[u]),
                    sent |-> w.m.sent, ops |-> w.m.ops, llm |-> w.m.llm,
                    thrown |-> w.m.thrown]

Handle(u, msgId, t, failAt, redelivered) ==
    HandleWithin(u, msgId, t, failAt, redelivered, MaxEvents)

\* what the patient answers when asked for the full name
NameTexts == {Words("Ana Perez"), Words("ok"), Clock(3, -1, "", FALSE)}

\* the texts the patient may send next
Answers(session) ==
    IF session.state = "await_name" /\ session.selectedSlot # <<>> THEN NameTexts ELSE Texts

\* the delivery of a new message with text t
DeliverText(u, t) ==
    /\ Handle(u, FreshId(u), t, 0, FALSE)
    /\ UNCHANGED <<cfg, slotVars, reminded, redis, now, retry, inv>>

Deliver == \E u \in Users : \E t \in Answers(store[u]) : DeliverText(u, t)

\* the process restarts: the in-memory session map starts empty
Restart ==
    /\ ~redis
    /\ store' = [u \in Users |-> defaultSession]
    /\ last' = NoInvocation
    /\ UNCHANGED <<cfg, slotVars, reminded, redis, now, calendar, retry, inv>>

Next == Deliver \/ Restart

Spec == Init /\ [][Next]_vars

-----------------------------------------------------------------------------
(* Specification of redelivery: the transport may keep a message it has     *)
(* delivered and deliver it again later, any number of messages in between. *)

RetryTexts ==
    {Words("hola"), Words("ortodoncia manana"), Clock(1, -1, "", FALSE),
     Words("Ana Perez"), Digits(Patient), Words("cancelar")}

\* a new message arrives; the transport may keep it for a later retry
DeliverOnce ==
    \E u \in Users, t \in RetryTexts, keep \in BOOLEAN :
        /\ keep => Cardinality(retry) < MaxRetry
        /\ Handle(u, FreshId(u), t, 0, FALSE)
        /\ retry' = IF keep
                    THEN retry \cup {[from |-> u, msgId |-> FreshId(u), text |-> t]}
                    ELSE retry
        /\ UNCHANGED <<cfg, slotVars, reminded, redis, now, inv>>

\* the transport delivers again a message it delivered before
Redeliver ==
    \E r \in retry, again \in BOOLEAN :
        /\ Handle(r.from, r.msgId, r.text, 0, TRUE)
        /\ retry' = IF again THEN retry ELSE retry \ {r}
        /\ UNCHANGED <<cfg, slotVars, reminded, redis, now, inv>>

NextRetry == DeliverOnce \/ Redeliver

SpecRetry == Init /\ [][NextRetry]_vars

-----------------------------------------------------------------------------
(* Specification of concurrent invocations.  An invocation loads the        *)
(* session and runs the dedupe test, processes the message, and saves the   *)
(* session; the steps of different invocations interleave.  With Redis      *)
(* each invocation works on its own copy of the session (JSON.parse of the  *)
(* stored string); without it all of them share the object in the map.      *)

MaxInFlight == 2

Invocations == 1 .. MaxInFlight

ConcTexts == {Words("hola"), Words("ortodoncia manana")}

Free ==
    [pc |-> "free", from |-> "", msgId |-> 0, text |-> Words(""),
     session |-> defaultSession, sent |-> <<>>, ops |-> <<>>, llm |-> 0]

ConcIds == 1 .. (MaxInFlight + 2)

\* the id Meta gives to a new message: one that no party remembers
FreshConcId ==
    CHOOSE i \in ConcIds :
        LET unused(j) == /\ \A u \in Users : store[u].lastMsgId # j
                         /\ \A q \in Invocations :
                                inv[q].msgId # j /\ inv[q].session.lastMsgId # j
        IN  unused(i) /\ \A j \in ConcIds : unused(j) => i <= j

InitConc ==
    /\ cfg = DialogConfig
    /\ qry = <<>>
    /\ qstage = 0
    /\ res1 = NoResult
    /\ res2 = NoResult
    /\ redis \in BOOLEAN
    /\ now = StartInstant
    /\ store = [u \in Users |-> defaultSession]
    /\ calendar = <<>>
    /\ retry = {}
    /\ inv = [p \in Invocations |-> Free]
    /\ last = NoInvocation
    /\ reminded = <<>>

\* Meta posts a message: a new one, or once more one that is still being handled
Receive(p) ==
    /\ inv[p].pc = "free"
    /\ \/ \E u \in Users, t \in ConcTexts :
             inv' = [inv EXCEPT ![p] = [Free EXCEPT !.pc = "received", !.from = u,
                                                    !.msgId = FreshConcId, !.text = t]]
       \/ \E q \in Invocations :
             /\ inv[q].pc # "free"
             /\ inv' = [inv EXCEPT ![p] = [Free EXCEPT !.pc = "received",
                                                       !.from = inv[q].from,
                                                       !.msgId = inv[q].msgId,
                                                       !.text = inv[q].text]]
    /\ UNCHANGED <<cfg, slotVars, reminded, redis, now, store, calendar, retry, last>>

\* session = await getSession(from), the dedupe test and the mark
Load(p) ==
    /\ inv[p].pc = "received"
    /\ \E loaded \in {getSession(inv[p].from)} :
          IF IsDuplicate(loaded, inv[p].msgId)
          THEN /\ inv' = [inv EXCEPT ![p].pc = "processed", ![p].session = loaded]
               /\ store' = store
          ELSE /\ inv' = [inv EXCEPT ![p].pc = "loaded",
                                     ![p].session = Mark(loaded, inv[p].msgId)]
               /\ store' = IF redis THEN store
                           ELSE [store EXCEPT ![inv[p].from] = Mark(loaded, inv[p].msgId)]
    /\ UNCHANGED <<cfg, slotVars, reminded, redis, now, calendar, retry, last>>

\* the session object the invocation works on
Working(p) == IF redis THEN inv[p].session ELSE store[inv[p].from]

\* the handler from the dedupe test to its response
Process(p) ==
    /\ inv[p].pc = "loaded"
    /\ \E m \in {Body(Machine(Working(p), calendar, 0), inv[p].from, inv[p].text,
                      Says(FALSE))} :
          /\ Len(m.cal) <= MaxEvents
          /\ m.s.messages <= 2 * MaxLlmTurns
          /\ calendar' = m.cal
          /\ inv' = [inv EXCEPT ![p].pc = "processed", ![p].session = m.s,
                                ![p].sent = m.sent, ![p].ops = m.ops, ![p].llm = m.llm]
          /\ store' = IF redis THEN store ELSE [store EXCEPT ![inv[p].from] = m.s]
    /\ UNCHANGED <<cfg, slotVars, reminded, redis, now, retry, last>>

\* finally: await saveSession(from, session)
Save(p) ==
    /\ inv[p].pc = "processed"
    /\ store' = [store EXCEPT ![inv[p].from] = sanitizeSession(Working(p))]
    /\ inv' = [inv EXCEPT ![p].pc = "done"]
    /\ UNCHANGED <<cfg, slotVars, reminded, redis, now, calendar, retry, last>>

\* the invocation is over and forgotten
Finish(p) ==
    /\ inv[p].pc = "done"
    /\ inv' = [inv EXCEPT ![p] = Free]
    /\ UNCHANGED <<cfg, slotVars, reminded, redis, now, store, calendar, retry, last>>

NextConc == \E p \in Invocations : Receive(p) \/ Load(p) \/ Process(p) \/ Save(p) \/ Finish(p)

SpecConc == InitConc /\ [][NextConc]_vars

-----------------------------------------------------------------------------
(* Specification of the calendar tools and the reminder sweep: appointments *)
(* are booked, rescheduled and cancelled with the tools (as the webhook and *)
(* the language model's tool calls do), the clock advances, and GET /tick   *)
(* runs reminderLoop, one run at a time.  Any one outside call of a run may *)
(* fail.                                                                    *)

MaxCalEvents == 1
MaxCancels == 1
MaxReminders == 2

CalConfig(reminder24h, reminder2h) ==
    [REMINDER_24H |-> reminder24h, REMINDER_2H |-> reminder2h] @@ DialogConfig

CalConfigs == {CalConfig(TRUE, TRUE), CalConfig(FALSE, TRUE)}

\* the 08:00 slot of a working day, as getAvailableSlotsTool returns it
CalSlot(day) ==
    [start |-> zonedTimeToUtc(day, 8, 0), end |-> zonedTimeToUtc(day, 8, 0) + 30,
     service |-> "ortodoncia", slot_id |-> SlotId(zonedTimeToUtc(day, 8, 0))]

CalSlots == {CalSlot(3), CalSlot(4)}

\* the instants at which something is done: before any window, then 23 h 10 min and
\* 1 h 35 min before each slot
CalInstants == UNION {{sl.start - (23 * 60 + 10), sl.start - 95} : sl \in CalSlots}

\* the slots a booking is asked for: an offered slot, or one without its start or end
BookSlots ==
    CalSlots \cup {[CalSlot(3) EXCEPT !.start = NoInstant],
                   [CalSlot(4) EXCEPT !.end = NoInstant]}

BookNames == {"Ana Perez", " Ana Perez "}
BookPhones == {Patient, "8295550101"}
BookWaIds == {"", Patient}

\* the optional arguments of rescheduleAppointmentTool
Overrides ==
    {[service |-> "", patient_name |-> "", phone |-> "", wa_id |-> ""],
     [service |-> "implantes", patient_name |-> "Luis Gil", phone |-> "8295550101",
      wa_id |-> Patient],
     [service |-> " ortodoncia", patient_name |-> "  ", phone |-> "", wa_id |-> ""]}

CancelReasons == {"cancelar"}

\* the outside call of a run that fails (0: none): a tool makes at most two calls, a
\* sweep over one event at most four
ToolFailAts == 0 .. 2
SweepFailAts == 0 .. 4

NoReminders == [reminder24hSent |-> 0, reminder2hSent |-> 0]

\* what the most recent operation was: its arguments, whether it returned (ok) or
\* threw, the calendar before it, and the reminders a sweep delivered
NoCalOp ==
    [op |-> "", id |-> 0, args |-> <<>>, ok |-> TRUE, was |-> <<>>, reminders |-> <<>>]

InitCal ==
    /\ cfg \in CalConfigs
    /\ qry = <<>>
    /\ qstage = 0
    /\ res1 = NoResult
    /\ res2 = NoResult
    /\ redis = FALSE
    /\ now = StartInstant
    /\ store = [u \in Users |-> defaultSession]
    /\ calendar = <<>>
    /\ retry = {}
    /\ inv = <<>>
    /\ last = NoCalOp
    /\ reminded = <<>>

calFrame == <<cfg, slotVars, redis, store, retry, inv>>

CalBook(patient_name, phone, wa_id, slot, failAt) ==
    /\ Len(calendar) < MaxCalEvents
    /\ \E w \in {bookAppointmentTool(Machine(<<>>, calendar, failAt), patient_name, phone,
                                     slot.slot_id, slot.service, slot.start, slot.end,
                                     wa_id)} :
           /\ calendar' = w.m.cal
           /\ reminded' = IF w.booked # <<>> THEN Append(reminded, NoReminders)
                          ELSE reminded
           /\ last' = [NoCalOp EXCEPT !.op = "book", !.ok = ~w.m.thrown,
                                      !.id = IF w.booked # <<>>
                                             THEN w.booked[1].appointment_id ELSE 0,
                                      !.args = <<patient_name, phone, wa_id, slot>>,
                                      !.was = calendar]
    /\ UNCHANGED <<calFrame, now>>

CalReschedule(id, slot, ov, failAt) ==
    /\ id \in DOMAIN calendar
    /\ \E m \in {rescheduleAppointmentTool(Machine(<<>>, calendar, failAt), id,
                                           slot.slot_id, slot.start, slot.end, ov.service,
                                           ov.patient_name, ov.phone, ov.wa_id)} :
           /\ calendar' = m.cal
           /\ reminded' = IF m.thrown THEN reminded
                          ELSE [reminded EXCEPT ![id] = NoReminders]
           /\ last' = [NoCalOp EXCEPT !.op = "reschedule", !.ok = ~m.thrown, !.id = id,
                                      !.args = <<slot, ov>>, !.was = calendar]
    /\ UNCHANGED <<calFrame, now>>

CalCancel(id, reason, failAt) ==
    /\ id \in DOMAIN calendar
    /\ Len(calendar[id].description) <= MaxCancels
    /\ \E m \in {cancelAppointmentTool(Machine(<<>>, calendar, failAt), id, reason)} :
           /\ calendar' = m.cal
           /\ last' = [NoCalOp EXCEPT !.op = "cancel", !.ok = ~m.thrown, !.id = id,
                                      !.args = <<reason>>, !.was = calendar]
    /\ UNCHANGED <<calFrame, now, reminded>>

\* the reminders of a run, counted for each event
RECURSIVE CountReminders(_, _)
CountReminders(counts, reminders) ==
    IF reminders = <<>> THEN counts
    ELSE CountReminders([counts EXCEPT ![Head(reminders).id][Head(reminders).flag] = @ + 1],
                        Tail(reminders))

\* GET /tick
CalSweep(failAt) ==
    /\ \E r \in {reminderLoop(calendar, now, failAt)} :
           /\ calendar' = r.m.cal
           /\ reminded' = CountReminders(reminded, r.reminders)
           /\ \A i \in DOMAIN reminded' :
                  /\ reminded'[i].reminder24hSent <= MaxReminders
                  /\ reminded'[i].reminder2hSent <= MaxReminders
           /\ last' = [NoCalOp EXCEPT !.op = "sweep", !.ok = ~r.m.thrown,
                                      !.was = calendar, !.reminders = r.reminders]
    /\ UNCHANGED <<calFrame, now>>

CalTick ==
    /\ \E t \in CalInstants : t > now /\ now' = t
    /\ last' = NoCalOp
    /\ UNCHANGED <<calFrame, calendar, reminded>>

Books ==
    \E patient_name \in BookNames, phone \in BookPhones, wa_id \in BookWaIds,
       slot \in BookSlots, failAt \in ToolFailAts :
        CalBook(patient_name, phone, wa_id, slot, failAt)

Reschedules ==
    \E id \in DOMAIN calendar, slot \in CalSlots, ov \in Overrides,
       failAt \in ToolFailAts :
        CalReschedule(id, slot, ov, failAt)

Cancels ==
    \E id \in DOMAIN calendar, reason \in CancelReasons, failAt \in ToolFailAts :
        CalCancel(id, reason, failAt)

Sweeps == \E failAt \in SweepFailAts : CalSweep(failAt)

NextCal == Books \/ Reschedules \/ Cancels \/ Sweeps \/ CalTick

SpecCal == InitCal /\ [][NextCal]_vars

-----------------------------------------------------------------------------
(* Specification of concurrent triggers of the sweep: GET /tick may be      *)
(* requested while an earlier request is still running reminderLoop.  A    *)
(* run gives way to the others at each await: after events.list, after the *)
(* send and after events.patch.  Meanwhile a patient may reschedule the     *)
(* appointment.  No outside call fails here.  The history variable last     *)
(* holds, for each event, the reminders delivered for its current start.    *)

MaxTriggers == 2

Triggers == 1 .. MaxTriggers

\* a run of reminderLoop: its "new Date()", and the reminders it has yet to send,
\* each with the private map of the event as listed
NoRun == [pc |-> "idle", t |-> 0, work |-> <<>>]

RECURSIVE workOf(_, _, _)
workOf(listed, ids, t) ==
    IF ids = <<>> THEN <<>>
    ELSE [k \in DOMAIN dueReminders(listed[Head(ids)], t) |->
              [id |-> Head(ids), priv |-> listed[Head(ids)].priv,
               start |-> listed[Head(ids)].start,
               due |-> dueReminders(listed[Head(ids)], t)[k]]]
         \o workOf(listed, Tail(ids), t)

InitTick ==
    /\ cfg = CalConfig(TRUE, TRUE)
    /\ qry = <<>>
    /\ qstage = 0
    /\ res1 = NoResult
    /\ res2 = NoResult
    /\ redis = FALSE
    /\ now = StartInstant
    /\ store = [u \in Users |-> defaultSession]
    /\ calendar = <<>>
    /\ retry = {}
    /\ inv = [p \in Triggers |-> NoRun]
    /\ last = <<>>
    /\ reminded = <<>>

tickFrame == <<cfg, slotVars, redis, store, retry>>

TickBook ==
    /\ Len(calendar) < MaxCalEvents
    /\ \E phone \in BookPhones, wa_id \in BookWaIds, slot \in CalSlots :
       \E w \in {bookAppointmentTool(Machine(<<>>, calendar, 0), "Ana Perez", phone,
                                     slot.slot_id, slot.service, slot.start, slot.end,
                                     wa_id)} :
           /\ calendar' = w.m.cal
           /\ reminded' = Append(reminded, NoReminders)
    /\ last' = Append(last, {})
    /\ UNCHANGED <<tickFrame, now, inv>>

\* the patient moves the appointment to another slot while runs are under way
TickReschedule(id, slot) ==
    /\ id \in DOMAIN calendar
    /\ slot.start # calendar[id].start
    /\ calendar' = rescheduleAppointmentTool(Machine(<<>>, calendar, 0), id, slot.slot_id,
                                              slot.start, slot.end, "", "", "", "").cal
    /\ reminded' = [reminded EXCEPT ![id] = NoReminders]
    /\ last' = [last EXCEPT ![id] = {}]
    /\ UNCHANGED <<tickFrame, now, inv>>

TickClock ==
    /\ \E t \in CalInstants : t > now /\ now' = t
    /\ UNCHANGED <<tickFrame, last, calendar, inv, reminded>>

\* GET /tick: reminderLoop up to the answer of events.list
TickList(p) ==
    /\ inv[p].pc = "idle"
    /\ inv' = [inv EXCEPT ![p] = [pc |-> "listed", t |-> now,
                                  work |-> workOf(calendar, reminderList(calendar, now),
                                                  now)]]
    /\ UNCHANGED <<tickFrame, last, now, calendar, reminded>>

\* await sendReminderWhatsAppToBestTarget(priv, phone, msg)
TickSend(p) ==
    /\ inv[p].pc = "listed"
    /\ inv[p].work # <<>>
    /\ \E job \in {Head(inv[p].work)} :
       \E sendRes \in {sendReminderWhatsAppToBestTarget(Machine(<<>>, calendar, 0),
                                                        job.priv, job.priv.wa_phone,
                                                        job.due.body)} :
           /\ sendRes.ok
           /\ reminded' = [reminded EXCEPT ![job.id][job.due.flag] = @ + 1]
           /\ reminded'[job.id][job.due.flag] <= MaxReminders
           /\ last' = IF job.start = calendar[job.id].start
                      THEN [last EXCEPT ![job.id] = @ \cup {job.due.flag}]
                      ELSE last
    /\ inv' = [inv EXCEPT ![p].pc = "sent"]
    /\ UNCHANGED <<tickFrame, now, calendar>>

\* await calendar.events.patch(...)
TickPatch(p) ==
    /\ inv[p].pc = "sent"
    /\ \E job \in {Head(inv[p].work)} :
           calendar' = patchReminderFlag(Machine(<<>>, calendar, 0), job.id, job.priv,
                                         job.due.flag).cal
    /\ inv' = [inv EXCEPT ![p].pc = "listed", ![p].work = Tail(@)]
    /\ UNCHANGED <<tickFrame, last, now, reminded>>

\* the loop is over: "tick ok"
TickEnd(p) ==
    /\ inv[p].pc = "listed"
    /\ inv[p].work = <<>>
    /\ inv' = [inv EXCEPT ![p] = NoRun]
    /\ UNCHANGED <<tickFrame, last, now, calendar, reminded>>

NextTick ==
    \/ TickBook
    \/ TickClock
    \/ \E id \in 1 .. MaxCalEvents, slot \in CalSlots : TickReschedule(id, slot)
    \/ \E p \in Triggers : TickList(p) \/ TickSend(p) \/ TickPatch(p) \/ TickEnd(p)

SpecTick == InitTick /\ [][NextTick]_vars

-----------------------------------------------------------------------------
(* Specification of the dialog with the request on record: as Spec, on the  *)
(* texts of a booking, a reschedule and a cancellation and on texts that    *)
(* fit no state; inv holds the request the handler has just answered.  The  *)
(* dialog is followed up to the message that creates one event more than    *)
(* MaxEvents.                                                               *)

TalkTexts ==
    {Words("hola"), Words("ortodoncia"), Words("ortodoncia manana"), Words("manana"),
     Words("cancelar"), Words("reprogramar"), Words("Ana Perez"), Words("ok"),
     Words("asdf"), BareNumber(1), BareNumber(2), BareNumber(3), Clock(3, -1, "pm", TRUE),
     Clock(9, 0, "", FALSE), Digits(Patient), Digits("555123"), Words("urgencias")}

InitTalk == Init

Talk ==
    \E u \in Users : \E t \in TalkTexts \cap Answers(store[u]) :
        /\ Len(calendar) <= MaxEvents
        /\ HandleWithin(u, FreshId(u), t, 0, FALSE, MaxEvents + 1)
        /\ inv' = <<[from |-> u, text |-> t]>>
        /\ UNCHANGED <<cfg, slotVars, reminded, redis, now, retry>>

TalkRestart ==
    /\ ~redis
    /\ store' = [u \in Users |-> defaultSession]
    /\ last' = NoInvocation
    /\ inv' = <<>>
    /\ UNCHANGED <<cfg, slotVars, reminded, redis, now, calendar, retry>>

NextTalk == Talk \/ TalkRestart

SpecTalk == InitTalk /\ [][NextTalk]_vars

-----------------------------------------------------------------------------
(* Specification of failures.  POST /webhook from the signature test to the *)
(* end of its finally block, with Redis or without it; one of the requests  *)
(* the invocation makes (to Redis, the calendar, the language model or the  *)
(* Graph API) may be rejected.                                              *)

MaxFailAt == 3

\* res.sendStatus(200) of the try block and of the catch block
OkStatus == 200
CaughtStatus == 200

\* the mutant of respond in which the exception leaves the handler
respondWithoutCatch(thrown) == IF thrown THEN 500 ELSE OkStatus

\* the response: the try block's, or the catch block's (src/index.js:1887-1890)
respond(thrown) == IF thrown THEN CaughtStatus ELSE OkStatus

\* session = await getSession(from); m.s stays null (<<>>) when redis.get rejects
loadSession(u, cal, failAt) ==
    IF redis
    THEN Bind(External(Machine(<<>>, cal, failAt), "redis"), LAMBDA e :
             IF e.thrown THEN e ELSE [e EXCEPT !.s = getSession(u)])
    ELSE Machine(getSession(u), cal, failAt)

\* the try block after getSession (src/index.js:1487-1886)
tryBlock(loaded, from, msgId, t, llmReply) ==
    IF loaded.thrown \/ IsDuplicate(loaded.s, msgId) THEN loaded
    ELSE Body([loaded EXCEPT !.s = Mark(@, msgId)], from, t, llmReply)

\* the finally block: saveSession when there is a session; a rejected redis.set is
\* logged (src/index.js:1890-1896)
finallyBlock(tried) ==
    IF tried.s = <<>> THEN tried
    ELSE IF redis THEN External([tried EXCEPT !.thrown = FALSE], "redis")
    ELSE [tried EXCEPT !.thrown = FALSE]

\* the whole invocation: the response, the run of the try block, and the session the
\* store holds afterwards
PostWebhook(u, msgId, t, failAt, llmReply) ==
    Bind(tryBlock(loadSession(u, calendar, failAt), u, msgId, t, llmReply), LAMBDA tried :
    Bind(finallyBlock(tried), LAMBDA done :
        [status |-> respond(tried.thrown),
         m |-> tried,
         saveFailed |-> tried.s # <<>> /\ done.thrown,
         stored |-> IF tried.s = <<>> \/ done.thrown THEN store[u]
                    ELSE sanitizeSession(tried.s)]))

FailTexts ==
    {Words("ortodoncia manana"), BareNumber(1), Words("Ana Perez"), Digits(Patient),
     Words("asdf"), Words("cancelar"), Words("reprogramar")}

\* the completions of the language model: a text, or a request to book a slot
ToolReplies ==
    {Says(FALSE),
     [servicio |-> FALSE,
      tool_calls |-> <<[name |-> "book_appointment",
                        args |-> [patient_name |-> "Ana Perez", phone |-> Patient,
                                  slot_id |-> CalSlot(3).slot_id,
                                  service |-> "ortodoncia",
                                  slot_start |-> CalSlot(3).start,
                                  slot_end |-> CalSlot(3).end]]>>]}

NoAnswer ==
    [from |-> "", status |-> 0, thrown |-> FALSE, failed |-> "", saveFailed |-> FALSE,
     sent |-> <<>>, ops |-> <<>>, llm |-> 0, was |-> <<>>]

InitFail ==
    /\ cfg = DialogConfig
    /\ qry = <<>>
    /\ qstage = 0
    /\ res1 = NoResult
    /\ res2 = NoResult
    /\ redis \in BOOLEAN
    /\ now = StartInstant
    /\ store = [u \in Users |-> defaultSession]
    /\ calendar = <<>>
    /\ retry = {}
    /\ inv = <<>>
    /\ last = NoAnswer
    /\ reminded = <<>>

\* one message is delivered and handled
FailDeliver(u, t, failAt, llmReply) ==
    /\ Len(calendar) <= MaxEvents
    /\ \E r \in {PostWebhook(u, FreshId(u), t, failAt, llmReply)} :
           /\ Len(r.m.cal) <= MaxEvents + 1
           /\ \A id \in DOMAIN r.m.cal : Len(r.m.cal[id].description) <= MaxCancels + 1
           /\ r.stored.messages <= 2 * MaxLlmTurns
           /\ store' = [store EXCEPT ![u] = r.stored]
           /\ calendar' = r.m.cal
           /\ last' = [from |-> u, status |-> r.status, thrown |-> r.m.thrown,
                       failed |-> r.m.failed, saveFailed |-> r.saveFailed,
                       sent |-> r.m.sent, ops |-> r.m.ops, llm |-> r.m.llm,
                       was |-> calendar]
    /\ inv' = <<[from |-> u, text |-> t]>>
    /\ UNCHANGED <<cfg, slotVars, reminded, redis, now, retry>>

NextFail ==
    \E u \in Users, failAt \in 0 .. MaxFailAt, llmReply \in ToolReplies :
        \E t \in FailTexts \cap Answers(store[u]) : FailDeliver(u, t, failAt, llmReply)

SpecFail == InitFail /\ [][NextFail]_vars

-----------------------------------------------------------------------------
(* Specification of two patients writing to the clinic.  Each delivery runs *)
(* the whole handler for its sender; the calendar is the clinic's one.  The *)
(* history variable last holds the sender of the most recent delivery, the  *)
(* sessions before it and, for each patient, the session and the calendar   *)
(* that the patient's own messages alone would have produced.               *)

\* the WhatsApp id of a second patient
Visitor == "18295550202"
TwoUsers == {Patient, Visitor}

\* one key for every user
sharedSessionKey(userId) == Patient

\* the key of a user's session: `${SESSION_PREFIX}${userId}`, or userId in the Map
sessionKey(userId) == userId

TwoTexts ==
    {Words("ortodoncia manana"), BareNumber(1), Words("Ana Perez"), Digits(Patient)}

Alone ==
    [from |-> "", before |-> [u \in TwoUsers |-> defaultSession],
     solo |-> [u \in TwoUsers |-> defaultSession], soloCal |-> [u \in TwoUsers |-> <<>>]]

InitTwo ==
    /\ cfg = DialogConfig
    /\ qry = <<>>
    /\ qstage = 0
    /\ res1 = NoResult
    /\ res2 = NoResult
    /\ redis \in BOOLEAN
    /\ now = StartInstant
    /\ store = [u \in TwoUsers |-> defaultSession]
    /\ calendar = <<>>
    /\ retry = {}
    /\ inv = <<>>
    /\ last = Alone
    /\ reminded = <<>>

\* POST /webhook for a message of u: getSession(u), the dialog, saveSession(u, session)
TwoDeliver(u, t) ==
    /\ Len(calendar) <= MaxEvents
    /\ \E w \in {Webhook(sanitizeSession(store[sessionKey(u)]), calendar, u, FreshId(u), t,
                          0, Says(FALSE))} :
       \E sw \in {Webhook(last.solo[u], last.soloCal[u], u, FreshId(u), t, 0,
                           Says(FALSE))} :
           /\ Len(w.m.cal) <= MaxEvents + 1
           /\ w.m.s.messages <= 2 * MaxLlmTurns
           /\ sw.m.s.messages <= 2 * MaxLlmTurns
           /\ store' = [store EXCEPT ![sessionKey(u)] = sanitizeSession(w.m.s)]
           /\ calendar' = w.m.cal
           /\ last' = [from |-> u, before |-> store,
                       solo |-> [last.solo EXCEPT ![u] = sanitizeSession(sw.m.s)],
                       soloCal |-> [last.soloCal EXCEPT ![u] = sw.m.cal]]
    /\ inv' = <<[from |-> u, text |-> t]>>
    /\ UNCHANGED <<cfg, slotVars, reminded, redis, now, retry>>

NextTwo == \E u \in TwoUsers : \E t \in TwoTexts \cap Answers(store[u]) : TwoDeliver(u, t)

SpecTwo == InitTwo /\ [][NextTwo]_vars

-----------------------------------------------------------------------------
(* Specification of the requests to the language model.  A session holds    *)
(* any number of messages up to the cap; the handler falls back to          *)
(* callOpenAI, and the completion asks for some tools or for none.  The     *)
(* history variable last holds the message lists of the requests of the     *)
(* most recent call: each entry is the role of a message.                   *)

MaxToolCalls == 3
WindowSize == 14

\* s.slice(-n)
LastN(s, n) == IF Len(s) <= n THEN s ELSE SubSeq(s, Len(s) - n + 1, Len(s))

\* [system, ...session.messages].slice(-14), count the length of session.messages
requestMessages(count) ==
    LastN(<<"system">> \o [i \in 1 .. count |-> "history"], WindowSize)

\* [...messages, msg, ...toolResults]
secondRequestMessages(messages, toolResults) ==
    messages \o <<"assistant">> \o [i \in 1 .. toolResults |-> "tool"]

\* the message lists callOpenAI sends for a session with count messages when the
\* first completion asks for toolResults tools (handoff_to_human: no outside effect)
requestsOf(count, toolResults) ==
    Bind(requestMessages(count + 1), LAMBDA messages :
        IF toolResults = 0 THEN <<messages>>
        ELSE <<messages, secondRequestMessages(messages, toolResults)>>)

NoRequests == [count |-> 0, requests |-> <<>>]

InitAsk ==
    /\ cfg = DialogConfig
    /\ qry = <<>>
    /\ qstage = 0
    /\ res1 = NoResult
    /\ res2 = NoResult
    /\ redis = FALSE
    /\ now = StartInstant
    /\ store \in {[u \in Users |-> [defaultSession EXCEPT !.messages = n]] :
                    n \in 0 .. MessagesKept}
    /\ calendar = <<>>
    /\ retry = {}
    /\ inv = <<>>
    /\ last = NoRequests
    /\ reminded = <<>>

\* a message that reaches the fallback: callOpenAI, then saveSession
Ask(u, toolResults) ==
    /\ \E session \in {getSession(u)} :
           /\ last' = [count |-> session.messages,
                       requests |-> requestsOf(session.messages, toolResults)]
           /\ store' = [store EXCEPT
                           ![u] = sanitizeSession([session EXCEPT !.messages = @ + 2])]
    /\ UNCHANGED <<cfg, slotVars, reminded, redis, now, calendar, retry, inv>>

NextAsk == \E u \in Users, toolResults \in 0 .. MaxToolCalls : Ask(u, toolResults)

SpecAsk == InitAsk /\ [][NextAsk]_vars

-----------------------------------------------------------------------------
(* Specification of loading a stored session.  What Redis holds under a     *)
(* user's key is a string written by any version of the program: no string  *)
(* at all, a string that is not JSON, or a JSON value.  A JSON value is a   *)
(* record with its type; an object carries its fields, an array its length. *)

Undefined == [type |-> "undefined"]
JNull == [type |-> "null"]
JNumber == [type |-> "number"]
JString(str) == [type |-> "string", str |-> str]
JBool(b) == [type |-> "boolean", bool |-> b]
JArray(len) == [type |-> "array", len |-> len]
JObject(fields) == [type |-> "object", fields |-> fields]

NoRecord == [type |-> "none"]
Unparseable == [type |-> "unparseable"]

\* obj[name]: undefined when the value has no such field
Field(v, name) ==
    IF v.type = "object" /\ name \in DOMAIN v.fields THEN v.fields[name] ELSE Undefined

\* obj[name] = value
SetField(v, name, value) ==
    IF v.type = "object"
    THEN [v EXCEPT !.fields = [n \in DOMAIN @ \cup {name} |->
                                  IF n = name THEN value ELSE @[n]]]
    ELSE JObject([n \in {name} |-> value])

\* !v
Falsy(v) == v.type \in {"undefined", "null"} \/ v = JString("") \/ v = JBool(FALSE)

\* typeof v, with typeof null = typeof [] = "object"
TypeOf(v) == IF v.type \in {"null", "array"} THEN "object" ELSE v.type

defaultRescheduleJson ==
    JObject([active |-> JBool(FALSE), appointment_id |-> JString(""),
             phone |-> JString(""), patient_name |-> JString(""),
             service |-> JString("")])

defaultSessionJson ==
    JObject([messages |-> JArray(0), state |-> JString("idle"), lastSlots |-> JArray(0),
             selectedSlot |-> JNull, pendingService |-> JNull, pendingRange |-> JNull,
             pendingName |-> JNull, lastBooking |-> JNull, greeted |-> JBool(FALSE),
             lastMsgId |-> JNull, reschedule |-> defaultRescheduleJson])

\* if (typeof obj[name] !== type) obj[name] = value
Retype(v, name, type, value) ==
    IF TypeOf(Field(v, name)) # type THEN SetField(v, name, value) ELSE v

\* if (!Array.isArray(obj[name])) obj[name] = []; obj[name] = obj[name].slice(..keep)
KeepArray(v, name, keep) ==
    Bind(Field(v, name), LAMBDA a :
        SetField(v, name, IF a.type # "array" THEN JArray(0)
                          ELSE JArray(IF a.len > keep THEN keep ELSE a.len)))

\* the reschedule part of sanitizeSession (src/index.js:102-110)
sanitizeReschedule(r) ==
    IF Falsy(r) \/ TypeOf(r) # "object" THEN defaultRescheduleJson
    ELSE Retype(Retype(Retype(Retype(Retype(r, "active", "boolean", JBool(FALSE)),
                                            "appointment_id", "string", JString("")),
                                     "phone", "string", JString("")),
                              "patient_name", "string", JString("")),
                       "service", "string", JString(""))

\* sanitizeSession on a parsed value (src/index.js:93-115)
sanitizeSessionJson(session) ==
    IF Falsy(session) \/ TypeOf(session) # "object" THEN defaultSessionJson
    ELSE Bind(KeepArray(KeepArray(session, "messages", MessagesKept),
                        "lastSlots", SlotsKept), LAMBDA kept :
         Bind(SetField(kept, "reschedule", sanitizeReschedule(Field(kept, "reschedule"))),
              LAMBDA r :
                  Retype(Retype(r, "state", "string", JString("idle")),
                         "greeted", "boolean", JBool(FALSE))))

\* safeJson(str, fallback): JSON.parse, or the fallback when it throws
safeJson(raw, fallback) == IF raw = Unparseable THEN fallback ELSE raw

\* getSession with Redis (src/index.js:125-128)
getSessionJson(raw) ==
    sanitizeSessionJson(IF raw = NoRecord THEN defaultSessionJson
                        ELSE safeJson(raw, defaultSessionJson))

\* the stored reschedule objects
StoredReschedules ==
    {Undefined, JNull, JString("x"),
     JObject([active |-> JString("yes"), appointment_id |-> JNumber]),
     defaultRescheduleJson}

\* the stored objects: fields missing, wrongly typed, of another version, unknown
StoredObjects ==
    {JObject([messages |-> ms, lastSlots |-> ls, state |-> st, greeted |-> g,
              reschedule |-> r, selectedSlot |-> sel, theme |-> th]) :
        ms \in {Undefined, JString("x"), JArray(MessagesKept + 5)},
        ls \in {Undefined, JNumber, JArray(SlotsKept + 2)},
        st \in {Undefined, JNumber, JString("await_day"), JString("awaiting_day")},
        g \in {Undefined, JNumber, JBool(TRUE)},
        r \in StoredReschedules,
        sel \in {JNull, JString("x")},
        th \in {Undefined, JString("dark")}}

StoredRecords ==
    {NoRecord, Unparseable, JNull, JNumber, JString("x"), JBool(TRUE), JArray(3),
     JObject(<<>>)} \cup StoredObjects

NotLoaded == [type |-> "not loaded"]

InitLoad ==
    /\ cfg = DialogConfig
    /\ qry = <<>>
    /\ qstage = 0
    /\ res1 = NoResult
    /\ res2 = NoResult
    /\ redis = TRUE
    /\ now = StartInstant
    /\ store \in [Users -> StoredRecords]
    /\ calendar = <<>>
    /\ retry = {}
    /\ inv = <<>>
    /\ last = NotLoaded
    /\ reminded = <<>>

\* const session = await getSession(userId)
LoadStored(u) ==
    /\ last = NotLoaded
    /\ last' = getSessionJson(store[u])
    /\ UNCHANGED <<cfg, slotVars, reminded, redis, now, store, calendar, retry, inv>>

NextLoad == \E u \in Users : LoadStored(u)

SpecLoad == InitLoad /\ [][NextLoad]_vars

-----------------------------------------------------------------------------
(* Properties of the slot choice (checked under Spec) *)

AwaitingSlotChoice(u) ==
    store[u].state = "await_slot_choice" /\ store[u].lastSlots # <<>>

\* this step makes S the patient's choice: the selected slot, or the new time of the
\* appointment being rescheduled
SelectsSlot(u, S) ==
    IF store[u].reschedule.active /\ store[u].reschedule.appointment_id # 0
    THEN /\ calendar'[store[u].reschedule.appointment_id].start = S.start
         /\ calendar'[store[u].reschedule.appointment_id].end = S.end
         /\ calendar'[store[u].reschedule.appointment_id].priv.status # "cancelled"
         /\ store'[u].state = "post_booking"
         /\ store'[u].lastBooking # <<>>
         /\ store'[u].lastBooking[1].start = S.start
    ELSE /\ store'[u].selectedSlot = <<S>>
         /\ store'[u].state = "await_name"
         /\ calendar' = calendar

\* this step selects nothing and keeps waiting for the choice
SelectsNothing(u) ==
    /\ store'[u].state = "await_slot_choice"
    /\ store'[u].selectedSlot = store[u].selectedSlot
    /\ store'[u].lastSlots = store[u].lastSlots
    /\ calendar' = calendar

\* C9: in state await_slot_choice with lastSlots = [S1..Sn], a message whose text is
\* the bare number k, 1 <= k <= n, selects Sk: Sk becomes the selected slot and the
\* state await_name, or Sk becomes the new time of the appointment being rescheduled;
\* whatever appointments the calendar holds for the patient's phone.
C9_BareNumberSelectsSk ==
    [][\A u \in Users, k \in 1 .. SlotCap :
          (/\ AwaitingSlotChoice(u)
           /\ k <= Len(store[u].lastSlots)
           /\ DeliverText(u, BareNumber(k)))
          => SelectsSlot(u, store[u].lastSlots[k])]_vars

\* the hour and minute a clock-time text names, as minutes of the day
ClockMinuteOfDay(t) ==
    (CASE t.mer = "pm" /\ t.hh # 12 -> t.hh + 12
       [] t.mer = "am" /\ t.hh = 12 -> 0
       [] OTHER -> t.hh) * 60 + (IF t.mm >= 0 THEN t.mm ELSE 0)

\* the offered slots that start at the time the text names, in the clinic's zone
StartingAt(slots, t) ==
    {i \in DOMAIN slots : LocalMinuteOfDay(slots[i].start) = ClockMinuteOfDay(t)}

\* a bare number that C9 reads as an ordinal into the offered slots
IsOrdinalOf(t, slots) == t \in {BareNumber(k) : k \in 1 .. Len(slots)}

\* C10: in state await_slot_choice a clock-time input (hh or hh:mm, optionally am/pm,
\* and not an ordinal of the list) selects the first offered slot whose clinic-local
\* start equals it; when no offered slot starts at that time nothing is selected and
\* the state stays await_slot_choice (so "3:15 pm" is never taken as the ordinal 3).
C10_ClockTimeSelectsByStart ==
    [][\A u \in Users, t \in ClockTexts :
          (/\ AwaitingSlotChoice(u)
           /\ ~IsOrdinalOf(t, store[u].lastSlots)
           /\ DeliverText(u, t))
          => LET hits == StartingAt(store[u].lastSlots, t)
             IN  IF hits = {} THEN SelectsNothing(u)
                 ELSE SelectsSlot(u, store[u].lastSlots[
                                         CHOOSE i \in hits : \A j \in hits : i <= j])]_vars

-----------------------------------------------------------------------------
(* Properties of the dedupe of redelivered messages *)

NoEffect(r) == r.sent = <<>> /\ r.ops = <<>> /\ r.llm = 0

\* C1: a message whose identifier was already processed for the user is a no-op, also
\* when it is delivered again after other messages of the user: no calendar write, no
\* LLM call, no outbound message, no change of the session's dialog fields.
C1_RedeliveryIsNoOp == last.redelivered => (NoEffect(last) /\ ~last.changed)

Acted(p) == inv[p].pc \in {"processed", "done"} /\ ~NoEffect(inv[p])

\* C2: when the same message identifier is delivered twice to the same user and the
\* two invocations run concurrently, at most one of them executes the message's side
\* effects (calendar write, outbound reply).
C2_AtMostOneActs ==
    \A p, q \in Invocations :
        (p # q /\ inv[p].from = inv[q].from /\ inv[p].msgId = inv[q].msgId)
        => ~(Acted(p) /\ Acted(q))

-----------------------------------------------------------------------------
(* Properties of tryPickSlotFromUserText (checked under Spec, on every      *)
(* session the dialog reaches)                                              *)

\* the bare numbers a patient can type: one or two digits
BareNumbers == 0 .. 23

\* C11: an input consisting only of digits is only a 1-based ordinal into lastSlots,
\* never an hour of day: for every bare number k the result is lastSlots[k-1] when
\* 1 <= k <= length, and no slot otherwise.
C11_BareDigitsOnlyOrdinal ==
    \A u \in Users, k \in BareNumbers :
        tryPickSlotFromUserText(store[u], BareNumber(k))
            = IF 1 <= k /\ k <= Len(store[u].lastSlots)
              THEN <<store[u].lastSlots[k]>>
              ELSE <<>>

-----------------------------------------------------------------------------
(* Properties of the calendar tools (checked under SpecCal) *)

\* the most recent operation was op and it returned
Returned(op) == last.op = op /\ last.ok

\* the event the most recent operation was about, before and after it
Before == last.was[last.id]
After == calendar[last.id]

\* the private fields a reschedule may override, with the argument that overrides each
OverridableFields ==
    [service |-> "service", patient_name |-> "patient_name", wa_phone |-> "phone",
     wa_id |-> "wa_id"]

\* the private fields rescheduleAppointmentTool always writes
RewrittenFields == {"slot_id", "reminder24hSent", "reminder2hSent"}

PrivateFields ==
    {"wa_phone", "wa_id", "patient_name", "service", "slot_id", "reminder24hSent",
     "reminder2hSent", "status"}

\* C12: after rescheduleAppointmentTool(id, newSlot) succeeds, the event read by the
\* same id starts and ends as the new slot does and has both reminder flags "false";
\* the calendar holds as many events as before (no second event for the appointment).
C12_RescheduleKeepsIdentity ==
    Returned("reschedule")
    => /\ Len(calendar) = Len(last.was)
       /\ After.start = last.args[1].start
       /\ After.end = last.args[1].end
       /\ After.priv.reminder24hSent = "false"
       /\ After.priv.reminder2hSent = "false"

\* a reminder had been sent for the appointment, and it was moved to the other slot
C12_Witness ==
    /\ Returned("reschedule")
    /\ Before.priv.reminder24hSent = "true"
    /\ Before.start # After.start
    /\ After.priv.reminder24hSent = "false"

\* the override given for the private field f in the most recent reschedule, "" if none
OverrideOf(f) == IF f \in DOMAIN OverridableFields THEN last.args[2][OverridableFields[f]] ELSE ""

\* C13 as stated: each of service, patient_name, wa_phone and wa_id is afterwards the
\* override when a non-empty one is given and the previous value otherwise; every
\* other private field but slot_id and the reminder flags is carried over unchanged.
C13_OverrideOrPrevious ==
    Returned("reschedule")
    => \A f \in PrivateFields \ RewrittenFields :
           After.priv[f] = IF OverrideOf(f) # "" THEN OverrideOf(f) ELSE Before.priv[f]

\* C13 amended: each of service, patient_name, wa_phone and wa_id is afterwards v
\* without the white space around it when that is not empty, and the previous value
\* otherwise, where v is the override when one is given and the previous value when
\* none is; every other private field but slot_id and the reminder flags is carried
\* over unchanged.
C13_TrimmedOverrideOrPrevious ==
    Returned("reschedule")
    => \A f \in PrivateFields \ RewrittenFields :
           LET v == IF OverrideOf(f) # "" THEN OverrideOf(f) ELSE Before.priv[f]
           IN  After.priv[f] = IF f \in DOMAIN OverridableFields /\ trim(v) # ""
                               THEN trim(v)
                               ELSE Before.priv[f]

\* a cancelled appointment was rescheduled with a new service and name: the overrides
\* are stored and the status is kept
C13_Witness ==
    /\ Returned("reschedule")
    /\ Before.priv.status = "cancelled"
    /\ Before.priv.service = "ortodoncia"
    /\ After.priv.status = "cancelled"
    /\ After.priv.service = "implantes"
    /\ After.priv.patient_name = "Luis Gil"

\* C14: cancelAppointmentTool never deletes the event: after cancel(id) succeeds the
\* event is still read by its id, its private status is "cancelled", the reason is the
\* last part of its description, and its other private fields, its start and its end
\* are unchanged.
C14_CancelKeepsEvent ==
    Returned("cancel")
    => /\ Len(calendar) = Len(last.was)
       /\ After.priv.status = "cancelled"
       /\ After.description
              = Append(Before.description,
                       [part |-> "Cancelacion", text |-> <<last.args[1]>>])
       /\ \A f \in PrivateFields \ {"status"} : After.priv[f] = Before.priv[f]
       /\ After.start = Before.start
       /\ After.end = Before.end

\* an appointment that had been reminded was cancelled
C14_Witness ==
    /\ Returned("cancel")
    /\ Before.priv.status = ""
    /\ Before.priv.reminder24hSent = "true"
    /\ After.priv.status = "cancelled"
    /\ Len(After.description) = 2

-----------------------------------------------------------------------------
(* Properties of the reminder sweep (checked under SpecCal) *)

RemindedFor(reminders, id, flag) ==
    \E k \in DOMAIN reminders : reminders[k].id = id /\ reminders[k].flag = flag

\* the event was inside the window when the most recent sweep ran
WasInDayBeforeWindow(id) == in24hWindow(last.was[id].start - now)
WasInHoursBeforeWindow(id) == in2hWindow(last.was[id].start - now)

\* C15: for an appointment whose day-before flag is already set, a run of
\* reminderLoop while the appointment is inside the day-before window sends no
\* day-before message for it and leaves the flag unchanged; the same holds for the
\* hours-before flag and window.
C15_SetFlagMeansNoReminder ==
    last.op = "sweep"
    => \A id \in DOMAIN last.was :
           /\ (last.was[id].priv.reminder24hSent = "true" /\ WasInDayBeforeWindow(id))
              => /\ ~RemindedFor(last.reminders, id, "reminder24hSent")
                 /\ calendar[id].priv.reminder24hSent = "true"
           /\ (last.was[id].priv.reminder2hSent = "true" /\ WasInHoursBeforeWindow(id))
              => /\ ~RemindedFor(last.reminders, id, "reminder2hSent")
                 /\ calendar[id].priv.reminder2hSent = "true"

\* a run inside the hours-before window of an appointment that is not cancelled and
\* whose hours-before flag was set sent nothing
C15_Witness ==
    /\ Returned("sweep")
    /\ last.reminders = <<>>
    /\ \E id \in DOMAIN last.was :
           /\ WasInHoursBeforeWindow(id)
           /\ last.was[id].priv.reminder2hSent = "true"
           /\ last.was[id].priv.status = ""
           /\ last.was[id].priv.wa_phone # ""

\* C16: over any sequence of reminderLoop runs for an appointment that is not
\* rescheduled, at most one day-before reminder and at most one hours-before reminder
\* is delivered to the patient, also when a calendar or outbound call of a run fails.
C16_AtMostOneReminderPerWindow ==
    \A id \in DOMAIN reminded :
        reminded[id].reminder24hSent <= 1 /\ reminded[id].reminder2hSent <= 1

\* C18: a run of reminderLoop that starts after cancelAppointmentTool completed for
\* an appointment sends no reminder for it and does not modify its event.
C18_CancelledIsSkipped ==
    last.op = "sweep"
    => \A id \in DOMAIN last.was :
           last.was[id].priv.status = "cancelled"
           => /\ \A k \in DOMAIN last.reminders : last.reminders[k].id # id
              /\ calendar[id] = last.was[id]

\* a run inside the day-before window of a cancelled appointment that had not been
\* reminded sent nothing
C18_Witness ==
    /\ Returned("sweep")
    /\ last.reminders = <<>>
    /\ cfg.REMINDER_24H
    /\ \E id \in DOMAIN last.was :
           /\ WasInDayBeforeWindow(id)
           /\ last.was[id].priv.status = "cancelled"
           /\ last.was[id].priv.reminder24hSent = "false"
           /\ last.was[id].priv.wa_phone # ""

\* C17: the sweep is safe to run from concurrent triggers: when runs of reminderLoop
\* interleave (each listing the events, sending, then patching the flag after the
\* send succeeded), every appointment still gets at most one reminder per window.
C17_ConcurrentSweepsRemindOnce ==
    \A id \in DOMAIN reminded, flag \in {"reminder24hSent", "reminder2hSent"} :
        reminded[id][flag] <= 1

-----------------------------------------------------------------------------
(* Properties of the reschedule dialog (checked under SpecTalk) *)

\* this step is the handler's answer to a message of u with text t
Replies(u, t) == inv' = <<[from |-> u, text |-> t]>> /\ last' # NoInvocation

\* the texts that state the reschedule intent: the keyword, or the choice 2
RescheduleTexts == {Words("reprogramar"), BareNumber(2)}

\* the session is in post_booking with its appointment
InPostBooking(u) == store[u].state = "post_booking" /\ store[u].lastBooking # <<>>

\* the reschedule marker is set
Rescheduling(u) == store[u].reschedule.active /\ store[u].reschedule.appointment_id # 0

\* C19: a reschedule intent in post_booking moves the session to await_day with the
\* existing appointment's service as pendingService and the reschedule marker set on
\* the existing appointment; while the marker is set no message creates a calendar
\* event, a message that selects no slot keeps the marker, and the message that
\* selects a slot reschedules the existing appointment_id to that slot and moves the
\* session to post_booking.
C19_RescheduleMutatesExisting ==
    [][\A u \in Users, t \in TalkTexts :
          Replies(u, t)
          => /\ (InPostBooking(u) /\ t \in RescheduleTexts)
                => /\ store'[u].state = "await_day"
                   /\ store'[u].pendingService = store[u].lastBooking[1].service
                   /\ store'[u].reschedule.active
                   /\ store'[u].reschedule.appointment_id
                          = store[u].lastBooking[1].appointment_id
                   /\ calendar' = calendar
             /\ Rescheduling(u)
                => LET picked == IF AwaitingSlotChoice(u)
                                 THEN tryPickSlotFromUserText(store[u], t) ELSE <<>>
                       id == store[u].reschedule.appointment_id
                   IN  /\ Len(calendar') = Len(calendar)
                       /\ IF picked = <<>>
                          THEN /\ store'[u].reschedule = store[u].reschedule
                               /\ calendar' = calendar
                          ELSE /\ last'.ops = <<"patch">>
                               /\ calendar'[id].start = picked[1].start
                               /\ calendar'[id].end = picked[1].end
                               /\ store'[u].state = "post_booking"
                               /\ store'[u].lastBooking[1].appointment_id = id
                               /\ ~store'[u].reschedule.active]_vars

\* the appointment was moved to another slot and is still the only event
C19_Witness ==
    /\ \E k \in DOMAIN last.sent : last.sent[k].body = "rescheduled"
    /\ last.ops = <<"patch">>
    /\ \E u \in Users :
           /\ InPostBooking(u)
           /\ Len(calendar) = 1
           /\ calendar[store[u].lastBooking[1].appointment_id].start
                  = store[u].lastBooking[1].start
           /\ calendar[1].priv.slot_id # calendar[1].description[1].text[4]

-----------------------------------------------------------------------------
(* Properties of the answers that do not fit the state (checked under       *)
(* SpecTalk)                                                                *)

\* the states that wait for one shape of answer
AwaitStates == {"await_day", "await_slot_choice", "await_name", "await_phone"}

\* t has the shape the session's state waits for: a day, one of the offered slots,
\* a full name, a phone number
MatchesExpectedShape(session, t) ==
    CASE session.state = "await_day" -> parseDateRangeFromText(t) # <<>>
      [] session.state = "await_slot_choice" -> tryPickSlotFromUserText(session, t) # <<>>
      [] session.state = "await_name" -> ~(TextLen(t) < 3 \/ HasWord(t, {"si", "ok", "listo"}))
      [] session.state = "await_phone" -> phoneDigitsLength(t) >= 8
      [] OTHER -> TRUE

\* C20: in await_day, await_slot_choice, await_name and await_phone a text that has not
\* the shape the state waits for is answered with a message and leaves session.state
\* as it was.
C20_MismatchReprompts ==
    [][\A u \in Users, t \in TalkTexts :
          (/\ Replies(u, t)
           /\ store[u].state \in AwaitStates
           /\ ~MatchesExpectedShape(store[u], t))
          => /\ last'.sent # <<>>
             /\ store'[u].state = store[u].state]_vars

\* the same, leaving out the texts that make the handler look the sender's
\* appointment up in the calendar
MismatchRepromptsWithoutLookup ==
    [][\A u \in Users, t \in TalkTexts :
          (/\ Replies(u, t)
           /\ store[u].state \in AwaitStates
           /\ ~MatchesExpectedShape(store[u], t)
           /\ ~(/\ store[u].lastBooking = <<>>
                /\ \/ looksLikeCancel(t) \/ isChoice(t, 3)
                   \/ looksLikeReschedule(t) \/ isChoice(t, 2)
                   \/ looksLikeConfirm(t) \/ isChoice(t, 1)))
          => /\ last'.sent # <<>>
             /\ store'[u].state = store[u].state]_vars

-----------------------------------------------------------------------------
(* Properties of bookAppointmentTool (checked under SpecCal) *)

\* the arguments of the most recent booking
Asked == [patient_name |-> last.args[1], phone |-> last.args[2], wa_id |-> last.args[3],
          slot |-> last.args[4]]

\* C25: bookAppointmentTool throws when the slot's start or end is missing, and then
\* the calendar is as it was; when it returns, the calendar has exactly one event more,
\* at the slot, whose private map holds the service, the patient's name, the phone and
\* the channel id, and both reminder flags "false".
C25_BookCreatesOneEventOrFails ==
    last.op = "book"
    => /\ (Asked.slot.start = NoInstant \/ Asked.slot.end = NoInstant) => ~last.ok
       /\ ~last.ok => calendar = last.was
       /\ last.ok
          => /\ Len(calendar) = Len(last.was) + 1
             /\ SubSeq(calendar, 1, Len(last.was)) = last.was
             /\ last.id = Len(calendar)
             /\ After.start = Asked.slot.start /\ After.end = Asked.slot.end
             /\ After.priv.service = Asked.slot.service
             /\ After.priv.patient_name = Asked.patient_name
             /\ After.priv.wa_phone = Asked.phone
             /\ After.priv.wa_id = Asked.wa_id
             /\ After.priv.reminder24hSent = "false"
             /\ After.priv.reminder2hSent = "false"

\* a booking without the slot's start failed
C25_Witness ==
    /\ last.op = "book" /\ ~last.ok
    /\ last.args[4].start = NoInstant
    /\ calendar = <<>>

-----------------------------------------------------------------------------
(* Properties of the handler when a request fails (checked under SpecFail) *)

C22_FailureAnsweredWithTryAgain ==
    (last.thrown /\ last.failed \in {"calendar", "llm"})
    => \E k \in DOMAIN last.sent : last.sent[k].body = "try_again"

\* C26: after an invocation in which an event was created for the user, the saved
\* session's lastBooking is that event: its appointment_id, start and end.
C26_LastBookingIsTheBooking ==
    \A u \in Users :
        (last.from = u /\ Len(calendar) = Len(last.was) + 1)
        => /\ store[u].lastBooking # <<>>
           /\ store[u].lastBooking[1].appointment_id = Len(calendar)
           /\ store[u].lastBooking[1].start = calendar[Len(calendar)].start
           /\ store[u].lastBooking[1].end = calendar[Len(calendar)].end

-----------------------------------------------------------------------------
(* Properties of the query for a range in the past (checked under SpecSlots) *)

\* today through +7 days
ForwardWindow ==
    [from |-> startOfLocalDayUTC(now), to |-> addLocalDaysUTC(startOfLocalDayUTC(now), 7)]

\* C23: when the range of the query lies entirely in the past, the query returns, and
\* the slots it returns are slots of the window from today to seven days later, none
\* of them in the past.
C23_PastRangeReplaced ==
    (qstage >= 1 /\ qry.to <= now)
    => /\ res1.returns
       /\ \A i \in DOMAIN res1.slots :
              /\ ForwardWindow.from <= res1.slots[i].start
              /\ res1.slots[i].end <= ForwardWindow.to

-----------------------------------------------------------------------------
(* Properties of loading a session (checked under SpecLoad) *)

\* the dialog states (src/index.js:70)
KnownStates ==
    {"idle", "await_slot_choice", "await_name", "await_phone", "post_booking", "await_day"}

IsString(v) == v.type = "string"
IsObjectOrNull(v) == v.type \in {"object", "null", "undefined"}
IsStringOrNull(v) == v.type \in {"string", "null", "undefined"}

\* C24: getSession returns, for every stored record, a session whose fields all have
\* usable values: messages an array of at most 20 entries, lastSlots one of at most 10,
\* state one of the known dialog states, greeted a boolean, reschedule an object of a
\* boolean and four strings, and the other fields of their type or null.
C24_LoadedSessionIsUsable ==
    last # NotLoaded
    => /\ last.type \in {"object", "array"}
       /\ Field(last, "messages").type = "array"
       /\ Field(last, "messages").len <= MessagesKept
       /\ Field(last, "lastSlots").type = "array"
       /\ Field(last, "lastSlots").len <= SlotsKept
       /\ Field(last, "greeted").type = "boolean"
       /\ Field(last, "reschedule").type = "object"
       /\ Field(Field(last, "reschedule"), "active").type = "boolean"
       /\ \A f \in {"appointment_id", "phone", "patient_name", "service"} :
              IsString(Field(Field(last, "reschedule"), f))
       /\ \A f \in {"selectedSlot", "pendingRange", "lastBooking"} :
              IsObjectOrNull(Field(last, f))
       /\ \A f \in {"pendingService", "pendingName", "lastMsgId"} :
              IsStringOrNull(Field(last, f))
       /\ IsString(Field(last, "state"))
       /\ Field(last, "state").str \in KnownStates

\* the same without the claims on state and on the fields sanitizeSession leaves alone
LoadedSessionIsRepaired ==
    last # NotLoaded
    => /\ Field(last, "messages").type = "array"
       /\ Field(last, "messages").len <= MessagesKept
       /\ Field(last, "lastSlots").type = "array"
       /\ Field(last, "lastSlots").len <= SlotsKept
       /\ Field(last, "greeted").type = "boolean"
       /\ Field(last, "reschedule").type \in {"object", "array"}
       /\ Field(Field(last, "reschedule"), "active").type = "boolean"
       /\ \A f \in {"appointment_id", "phone", "patient_name", "service"} :
              IsString(Field(Field(last, "reschedule"), f))
       /\ IsString(Field(last, "state"))

-----------------------------------------------------------------------------
(* Properties of reminders after a reschedule (checked under SpecTick) *)

ReminderFlags == {"reminder24hSent", "reminder2hSent"}

\* C27: after rescheduleAppointmentTool both reminder flags of the event are unsent,
\* and a flag stays unsent until a reminder for the event's new start was delivered,
\* also when a run of reminderLoop that listed the event before the reschedule
\* writes its flag after it.
C27_FlagMeansRemindedOfCurrentStart ==
    \A id \in DOMAIN calendar, flag \in ReminderFlags :
        calendar[id].priv[flag] = "true" => flag \in last[id]

-----------------------------------------------------------------------------
(* Properties of a sweep whose sends fail (checked under SpecCal) *)

\* the most recent sweep delivered the reminder of this flag for event id
Delivered(id, flag) ==
    \E k \in DOMAIN last.reminders : last.reminders[k] = [id |-> id, flag |-> flag]

\* the reminder of this flag was due for event ev at the instant of the sweep
IsDue(ev, flag) == \E k \in DOMAIN dueReminders(ev, now) : dueReminders(ev, now)[k].flag = flag

\* C28: a run of reminderLoop sets a reminder flag only after that reminder was sent
\* successfully; when every send attempt for a due reminder fails, the flag stays as
\* it was and the event is not patched, so that the reminder is still due for a
\* later sweep.
C28_FlagSetOnlyAfterSend ==
    last.op = "sweep"
    => \A id \in DOMAIN last.was :
           /\ \A flag \in ReminderFlags :
                  ~Delivered(id, flag)
                  => /\ calendar[id].priv[flag] = last.was[id].priv[flag]
                     /\ IsDue(last.was[id], flag) => IsDue(calendar[id], flag)
           /\ (\A flag \in ReminderFlags : ~Delivered(id, flag))
              => calendar[id] = last.was[id]

\* a sweep found a reminder due, every send attempt failed, and it returned without
\* a patch
C28_Witness ==
    /\ last.op = "sweep"
    /\ last.ok
    /\ last.reminders = <<>>
    /\ calendar = last.was
    /\ \E id \in DOMAIN last.was :
           /\ IsDue(last.was[id], "reminder24hSent")
           /\ last.was[id].priv.reminder24hSent = "false"

-----------------------------------------------------------------------------
(* Properties of the await_name step (checked under Spec) *)

\* the session waits for the patient's name
AwaitsName(u) == store[u].state = "await_name" /\ store[u].selectedSlot # <<>>

\* the handler's run on a new message of u with text t
NextRun(u, t) == Webhook(getSession(u), calendar, u, FreshId(u), t, 0, Says(FALSE)).m

\* C29: in await_name an input made of digits only is rejected with a reprompt:
\* pendingName is not set, the state stays await_name, and no calendar call is made.
C29_NumericNameRejected ==
    \A u \in Users :
        AwaitsName(u)
        => \A t \in PhoneTexts :
               \E m \in {NextRun(u, t)} :
                   /\ m.s.pendingName = store[u].pendingName
                   /\ m.s.state = "await_name"
                   /\ m.sent = <<[to |-> u, body |-> "ask_full_name"]>>
                   /\ m.cal = calendar

\* what holds instead: the digits become the name and the dialog asks for the phone
NumericNameAccepted ==
    \A u \in Users :
        AwaitsName(u)
        => \A t \in PhoneTexts :
               \E m \in {NextRun(u, t)} :
                   /\ m.s.pendingName = Show(t)
                   /\ m.s.state = "await_phone"
                   /\ m.sent = <<[to |-> u, body |-> "ask_phone"]>>
                   /\ m.cal = calendar

-----------------------------------------------------------------------------
(* Properties of the await_phone step (checked under SpecTalk) *)

\* the session waits for the patient's phone number
AwaitsPhone(u) ==
    /\ store[u].state = "await_phone"
    /\ store[u].selectedSlot # <<>>
    /\ store[u].pendingName # ""

\* this step added to the calendar one event: the booking of the session's slot for
\* the session's name and the digits of t
BookedFromSession(u, t) ==
    /\ Len(calendar') = Len(calendar) + 1
    /\ SubSeq(calendar', 1, Len(calendar)) = calendar
    /\ \E ev \in {calendar'[Len(calendar')]} :
           /\ ev.start = store[u].selectedSlot[1].start
           /\ ev.end = store[u].selectedSlot[1].end
           /\ ev.priv.slot_id = store[u].selectedSlot[1].slot_id
           /\ ev.priv.patient_name = store[u].pendingName
           /\ ev.priv.wa_phone = phoneDigits(t)

\* the step of the await_phone branch for text t
PhoneStep(u, t) ==
    IF phoneDigitsLength(t) < 8
    THEN /\ last'.sent = <<[to |-> u, body |-> "phone_incomplete"]>>
         /\ calendar' = calendar
         /\ store'[u].state = "await_phone"
    ELSE /\ BookedFromSession(u, t)
         /\ store'[u].state = "post_booking"
         /\ store'[u].selectedSlot = <<>>
         /\ store'[u].pendingName = ""
         /\ store'[u].lastSlots = <<>>

\* the handler looks the sender's appointment up before the state's branch
LooksUp(u, t) ==
    /\ store[u].lastBooking = <<>>
    /\ \/ looksLikeCancel(t) \/ isChoice(t, 3)
       \/ looksLikeReschedule(t) \/ isChoice(t, 2)
       \/ looksLikeConfirm(t) \/ isChoice(t, 1)

\* C30: in await_phone a text with fewer than 8 digits is answered with a reprompt,
\* books nothing and leaves the state; a text with 8 digits or more makes exactly one
\* booking, of the stored selectedSlot for the stored pendingName and those digits,
\* after which the state is post_booking and selectedSlot, pendingName and lastSlots
\* are cleared.
C30_PhoneStepBooksOnce ==
    [][\A u \in Users, t \in TalkTexts :
          (Replies(u, t) /\ AwaitsPhone(u)) => PhoneStep(u, t)]_vars

\* the same, leaving out the texts that make the handler look the sender's
\* appointment up in the calendar
PhoneStepWithoutLookup ==
    [][\A u \in Users, t \in TalkTexts :
          (Replies(u, t) /\ AwaitsPhone(u) /\ ~LooksUp(u, t)) => PhoneStep(u, t)]_vars

-----------------------------------------------------------------------------
(* Properties of the cancellation in post_booking (checked under SpecFail) *)

\* the most recent invocation cancelled event id in the calendar
CancelledNow(id) ==
    /\ id \in DOMAIN last.was
    /\ last.was[id].priv.status # "cancelled"
    /\ calendar[id].priv.status = "cancelled"

\* the saved session of u shows event id as its active appointment
ShowsActive(u, id) ==
    /\ store[u].state = "post_booking"
    /\ store[u].lastBooking # <<>>
    /\ store[u].lastBooking[1].appointment_id = id

\* C31: once cancelAppointmentTool has cancelled the session's appointment in the
\* calendar, the saved session is idle with lastBooking, the pending fields and the
\* reschedule marker cleared; it never still shows post_booking with that
\* appointment as active.
C31_CancelledIsNotActive ==
    \A u \in Users, id \in DOMAIN calendar :
        (last # NoAnswer /\ last.from = u /\ CancelledNow(id))
        => /\ ~ShowsActive(u, id)
           /\ store[u].state = "idle"
           /\ store[u].lastBooking = <<>>
           /\ store[u].selectedSlot = <<>>
           /\ store[u].pendingName = ""
           /\ store[u].pendingService = ""
           /\ store[u].reschedule = defaultReschedule

\* the same for the invocations in which no call to the outside was rejected
CancelledIsNotActiveUnlessFailed ==
    \A u \in Users, id \in DOMAIN calendar :
        (last # NoAnswer /\ last.from = u /\ CancelledNow(id) /\ last.failed = "")
        => /\ store[u].state = "idle"
           /\ store[u].lastBooking = <<>>
           /\ store[u].selectedSlot = <<>>
           /\ store[u].pendingName = ""
           /\ store[u].pendingService = ""
           /\ store[u].reschedule = defaultReschedule

-----------------------------------------------------------------------------
(* Properties of the service and day steps (checked under SpecTalk) *)

\* the step for a text naming a service, from idle
ServiceStep(u, t) ==
    IF parseDateRangeFromText(t) = <<>>
    THEN /\ store'[u].state = "await_day"
         /\ store'[u].pendingService = detectServiceKeyFromUser(t)
    ELSE \/ /\ store'[u].state = "await_slot_choice"
            /\ store'[u].lastSlots # <<>>
            /\ store'[u].pendingService = detectServiceKeyFromUser(t)
         \/ /\ store'[u].state = "await_day"
            /\ last'.sent = <<[to |-> u, body |-> "no_slots"]>>

\* the step for a text in await_day
DayStep(u, t) ==
    IF parseDateRangeFromText(t) = <<>>
    THEN /\ store'[u].state = "await_day"
         /\ last'.sent # <<>>
         /\ calendar' = calendar
    ELSE \/ /\ store'[u].state = "await_slot_choice"
            /\ store'[u].lastSlots # <<>>
         \/ /\ store'[u].state = "await_day"
            /\ last'.sent = <<[to |-> u, body |-> "no_slots"]>>

\* C32: from idle a text naming a known service moves to await_day with
\* pendingService set when it has no date, and to await_slot_choice with the slots
\* of the query as lastSlots when it has one and the query returns slots; in await_day
\* a date with slots moves to await_slot_choice, and a text without a date or a query
\* without slots is answered and leaves await_day; await_slot_choice is never entered
\* with an empty lastSlots.
C32_ServiceAndDaySteps ==
    [][\A u \in Users, t \in TalkTexts :
          Replies(u, t)
          => /\ (store[u].state = "idle" /\ detectServiceKeyFromUser(t) # "")
                => ServiceStep(u, t)
             /\ store[u].state = "await_day" => DayStep(u, t)
             /\ store'[u].state = "await_slot_choice" => store'[u].lastSlots # <<>>]_vars

\* the same, leaving out the service "urgencias" and the texts that make the handler
\* look the sender's appointment up in the calendar
ServiceAndDayStepsOfBookableService ==
    [][\A u \in Users, t \in TalkTexts :
          (Replies(u, t) /\ ~LooksUp(u, t))
          => /\ (store[u].state = "idle" /\ detectServiceKeyFromUser(t) \notin {"", "urgencias"})
                => ServiceStep(u, t)
             /\ (store[u].state = "await_day" /\ detectServiceKeyFromUser(t) # "urgencias")
                => DayStep(u, t)
             /\ store'[u].state = "await_slot_choice" => store'[u].lastSlots # <<>>]_vars

-----------------------------------------------------------------------------
(* Properties of the sessions of two patients (checked under SpecTwo) *)

\* C33 as stated: after any sequence of deliveries for two users, the saved session
\* of each equals what that user's own messages alone would have produced.
C33_SessionAsIfAlone == \A u \in TwoUsers : store[u] = last.solo[u]

\* C33, amended: a delivery for one user leaves the saved session of every other
\* user as it was before the delivery.
C33_OtherSessionsUntouched ==
    \A u \in TwoUsers : u # last.from => store[u] = last.before[u]

\* a delivery for one patient was handled while the other patient's session held
\* offered slots that differ from what that patient alone would have been offered
C33_Witness ==
    /\ last.from = Patient
    /\ store[Patient] # last.before[Patient]
    /\ store[Visitor].state = "await_slot_choice"
    /\ store[Visitor] # last.solo[Visitor]

-----------------------------------------------------------------------------
(* Properties of the day loop of buildCandidateSlotsZoned (checked under    *)
(* SpecSlots)                                                               *)

\* the clinic-local dates of the range of the query, in order
LocalDatesOfQuery ==
    [k \in 1 .. (LocalDay(qry.to) - LocalDay(qry.from) + 1) |-> LocalDay(qry.from) + k - 1]

\* the run of buildCandidateSlotsZoned for the query
BuiltForQuery ==
    buildCandidateSlotsZoned(qry.service, qry.from, qry.to, DurationOf(qry.service))

\* the range of the query touches the local day on which the clocks are set back
TouchesLongDay ==
    /\ cfg.CLINIC_TIMEZONE.off1 < cfg.CLINIC_TIMEZONE.off0
    /\ LocalDay(qry.from) <= LocalDay(cfg.CLINIC_TIMEZONE.T)
    /\ LocalDay(cfg.CLINIC_TIMEZONE.T) <= LocalDay(qry.to)

\* C34: buildCandidateSlotsZoned terminates for every range and visits each
\* clinic-local date of the range exactly once, in order, also when a local day of
\* the range has 23 or 25 hours.
C34_DayLoopVisitsEachDateOnce ==
    qstage >= 1
    => \E built \in {BuiltForQuery} :
           /\ built.returns
           /\ built.dates = LocalDatesOfQuery

\* the same for the ranges that do not touch a day of 25 hours
DayLoopVisitsEachDateOnceUnlessLongDay ==
    (qstage >= 1 /\ ~TouchesLongDay)
    => \E built \in {BuiltForQuery} :
           /\ built.returns
           /\ built.dates = LocalDatesOfQuery

-----------------------------------------------------------------------------
(* Properties of the saved session (checked under SpecFail) *)

\* what each dialog state needs of the session
StateHasItsFields(session) ==
    /\ session.state = "await_slot_choice" => session.lastSlots # <<>>
    /\ session.state \in {"await_name", "await_phone"} => session.selectedSlot # <<>>
    /\ session.state = "await_phone" => session.pendingName # ""
    /\ session.state = "post_booking" => session.lastBooking # <<>>

\* C35: in every session saved after a webhook invocation, starting from a default
\* session: await_slot_choice has a non-empty lastSlots, await_name and await_phone
\* have selectedSlot, await_phone has pendingName, post_booking has lastBooking.
C35_SavedSessionIsCoherent == \A u \in Users : StateHasItsFields(store[u])

\* an invocation in which a call to the outside was rejected has been saved with
\* the session waiting for the phone number
C35_Witness ==
    /\ last # NoAnswer
    /\ last.failed # ""
    /\ \E u \in Users : store[u].state = "await_phone"

-----------------------------------------------------------------------------
(* Properties of the reschedule marker (checked under SpecFail) *)

RescheduleCompleted ==
    /\ last # NoAnswer
    /\ \E id \in DOMAIN last.was : calendar[id].start # last.was[id].start
    /\ \E u \in Users : store[u].state = "post_booking" /\ ~store[u].reschedule.active

-----------------------------------------------------------------------------
(* Properties of the instants the dialog books (checked under SpecTalk) *)

\* the slots offered to the session before this step
Offered(u) == {store[u].lastSlots[i] : i \in DOMAIN store[u].lastSlots}

\* event ev lies exactly on one of the slots offered to u
OnOfferedSlot(u, ev) == \E sl \in Offered(u) : ev.start = sl.start /\ ev.end = sl.end

\* the events this step created, and the events it moved
CreatedNow == {id \in DOMAIN calendar' : id \notin DOMAIN calendar}
MovedNow ==
    {id \in DOMAIN calendar :
        calendar'[id].start # calendar[id].start \/ calendar'[id].end # calendar[id].end}

\* the list the availability query returns for the service and range of the session
QueriedSlots(session) ==
    availableSlots(Machine(<<>>, calendar, 0), session.pendingService,
                   session.pendingRange[1].from, session.pendingRange[1].to).slots

\* C37: every calendar event the dialog creates (the booking of await_phone) or moves
\* (the reschedule of await_slot_choice) has the start and end of a slot of the
\* session's lastSlots, and lastSlots only ever holds what the availability query
\* returned to the session.
C37_BooksOfferedSlotsOnly ==
    [][\A u \in Users, t \in TalkTexts :
          Replies(u, t)
          => /\ \A id \in CreatedNow \cup MovedNow : OnOfferedSlot(u, calendar'[id])
             /\ store'[u].lastSlots \notin {<<>>, store[u].lastSlots}
                => store'[u].lastSlots = QueriedSlots(store'[u])
             /\ store'[u].selectedSlot # <<>>
                => store'[u].selectedSlot[1] \in Offered(u)]_vars

\* a reschedule moved the appointment to an offered slot picked by its clock time
C37_Witness ==
    /\ inv # <<>>
    /\ inv[1].text.kind = "time"
    /\ inv[1].text.mm >= 0
    /\ last.ops = <<"patch">>
    /\ \E u \in Users : store[u].state = "post_booking" /\ store[u].lastBooking # <<>>

-----------------------------------------------------------------------------
(* Properties of the appointments of two patients (checked under SpecTwo) *)

IsActive(ev) == ev.priv.status # "cancelled"

\* C38: no two appointments of the calendar that are not cancelled overlap in time,
\* also when two users were offered the same slot and both complete the dialog.
C38_NoOverlappingAppointments ==
    \A i, j \in DOMAIN calendar :
        (i < j /\ IsActive(calendar[i]) /\ IsActive(calendar[j]))
        => ~overlaps(calendar[i].start, calendar[i].end,
                     calendar[j].start, calendar[j].end)

-----------------------------------------------------------------------------
(* Properties of the requests to the language model (checked under SpecAsk) *)

\* C39: every request callOpenAI sends holds at most 14 messages and begins with
\* the system instruction, whatever the length of session.messages.
C39_RequestIsWindowWithSystem ==
    \A k \in DOMAIN last.requests :
        /\ Len(last.requests[k]) <= WindowSize
        /\ last.requests[k][1] = "system"

\* what holds: the first request has at most 14 messages, and it begins with the
\* system instruction as long as the session had at most 12 messages before
FirstRequestIsWindow ==
    last.requests # <<>>
    => /\ Len(last.requests[1]) <= WindowSize
       /\ last.count + 2 <= WindowSize => last.requests[1][1] = "system"

=============================================================================
